---- MODULE Spec2Model ----
(***************************************************************************)
(* Asynchronous vehicle import pipeline: ImportService.create_import_job   *)
(* (submitter), the SQS work queue, ImportWorker.start and                 *)
(* JobProcessor.process_job (worker), the import_jobs and                  *)
(* imported_vehicles tables and the staged upload file.                    *)
(*                                                                         *)
(* Every database commit, file-system operation and queue call of the      *)
(* Python code is one atomic step; the purely local computation between    *)
(* two such calls is folded into the step that follows it.                 *)
(*                                                                         *)
(* Spec is the pipeline with several uploads, several workers and          *)
(* redelivery.  RunSpec follows a single process_job call with all it      *)
(* writes: job_logs, the published events, and the clock its throttle      *)
(* reads.  BusSpec adds the Event Bus (JobEventManager) and the            *)
(* connections to GET /imports/stream to such calls.  LiveSpec is one      *)
(* message and one worker with redelivery that never stops.  ClientSpec is *)
(* the SSEClient of the frontend as the hooks use it, ApiSpec the same     *)
(* SSEClient under any order of calls of its methods.  UploadSpec is       *)
(* UploadForm, DetailSpec the hook useJobSSE, ListSpec the hook            *)
(* useJobsSSE, DynSpec DynamicUploadForm with its ColumnMapping.           *)
(***************************************************************************)
EXTENDS Integers, Sequences, FiniteSets, TLC

(* ------------------------------ bounds --------------------------------- *)
NumJobs == 2
NumWorkers == 2
MaxRows == 2
(* how many visibility timeouts elapse on received, undeleted messages *)
MaxRedeliveries == 1

(* a single process_job call followed step by step: rows of its file, the  *)
(* largest configured chunk size, and the seconds the clock can advance    *)
RunMaxRows == 3
MaxChunkSize == 2
MaxTime == 2

(* connections to GET /imports/stream, and receipts of the message of the  *)
(* job whose events they watch                                             *)
NumConns == 2
MaxDeliveries == 2

(* one SSEClient: times its stream opens, and consecutive failed attempts  *)
(* the server answers before it accepts again                              *)
MaxOpens == 2
MaxAttempts == 6

(* method calls, server events and lost streams of the SSEClient followed  *)
(* call by call                                                            *)
MaxCalls == 6

(* calls of on() for one callback and event type *)
MaxOn == 2

(* files UploadForm holds at a time, and jobs the server creates for it *)
MaxFiles == 2
MaxCreated == 3

(* rows of the job useJobSSE shows *)
DetailRows == 2

(* jobs of the jobs page and rows of each *)
MaxListJobs == 2
MaxListRows == 1

(* files DynamicUploadForm is given and mappings ColumnMapping holds *)
MaxDynFiles == 2
MaxMappings == 2

(* chunk size handed to SpreadsheetParser.read_file (settings BATCH_SIZE), *)
(* scaled down so that a file of MaxRows rows spans several chunks         *)
BATCH_SIZE == 1

Jobs == 1..NumJobs
Workers == 1..NumWorkers

(* SQL NULL of a nullable integer column *)
NULL == -1

(* ImportJobStatus; NOJOB stands for "no row in import_jobs" *)
NOJOB == "nojob"
PENDING == "pending"
PROCESSING == "processing"
COMPLETED == "completed"
FAILED == "failed"
Terminal == {COMPLETED, FAILED}

(* --------------------------- spreadsheet rows -------------------------- *)
(* A raw placa cell is a sequence of characters.  The three cells below    *)
(* cover: two spellings of one plate, and a different plate.               *)
RawPlacas == { <<"a">>, <<" ", "A">>, <<"b">> }

(* str.upper() on the characters that occur *)
UpperChar(c) == CASE c = "a" -> "A"
                  [] c = "b" -> "B"
                  [] OTHER -> c

RECURSIVE LStrip(_)
LStrip(s) == IF s # <<>> /\ Head(s) = " " THEN LStrip(Tail(s)) ELSE s

RECURSIVE RStrip(_)
RStrip(s) == IF s # <<>> /\ s[Len(s)] = " " THEN RStrip(SubSeq(s, 1, Len(s) - 1)) ELSE s

(* str.strip() *)
Strip(s) == RStrip(LStrip(s))

(* str.upper() *)
Upper(s) == [i \in 1..Len(s) |-> UpperChar(s[i])]

(* row['placa'].strip().upper() *)
NormalizePlaca(raw) == Upper(Strip(raw))

(* a row: the raw placa cell and the raw ano cell.  "2020" is a year in   *)
(* range, "1800" an integer out of range, "abc" a cell int() cannot read    *)
Rows == { [placa |-> <<"a">>, ano |-> "2020"],
          [placa |-> <<" ", "A">>, ano |-> "2020"],
          [placa |-> <<"b">>, ano |-> "1800"] }

(* ValidationService.validate_vehicle: int(row['ano']) raises on a cell    *)
(* that is not an integer; otherwise (is_valid, errors) is returned, and   *)
(* is_valid is FALSE when the year is outside 1900..current year + 1       *)
validate_vehicle(row) ==
    CASE row.ano = "abc" -> "raise"
      [] row.ano = "1800" -> "invalid"
      [] OTHER -> "valid"

RECURSIVE SeqsUpTo(_, _)
SeqsUpTo(S, n) == IF n = 0 THEN { <<>> }
                  ELSE LET prev == SeqsUpTo(S, n - 1)
                       IN  prev \cup { Append(q, x) : q \in prev, x \in S }

(* the uploaded files: every sequence of at most MaxRows rows *)
Files == SeqsUpTo(Rows, MaxRows)

(* the rows of the file of a followed process_job call: those above and a  *)
(* row whose ano cell is not an integer                                    *)
RunRows == Rows \cup { [placa |-> <<"b">>, ano |-> "abc"] }
RunFiles == SeqsUpTo(RunRows, RunMaxRows)

(* SpreadsheetParser.count_rows *)
count_rows(f) == Len(f)

Min(a, b) == IF a < b THEN a ELSE b

(* iloc with the slice starting one row late *)
iloc_SkipsRow(f, i, chunk_size) == SubSeq(f, i + 2, Min(Len(f), i + chunk_size))

(* full_df.iloc[i:i + chunk_size] *)
iloc(f, i, chunk_size) == SubSeq(f, i + 1, Min(Len(f), i + chunk_size))

(* the chunk SpreadsheetParser.read_file yields after `done` rows *)
read_file(f, done) == iloc(f, done, BATCH_SIZE)

VARIABLES
    content,      \* job -> rows of the file uploaded as that job
    subPc,        \* job -> position of create_import_job for that upload
    status,       \* import_jobs.status
    total_rows,   \* import_jobs.total_rows
    processed_rows, \* import_jobs.processed_rows
    error_rows,   \* import_jobs.error_rows
    started_at,   \* import_jobs.started_at (FALSE = NULL)
    finished_at,  \* import_jobs.finished_at (FALSE = NULL)
    staged,       \* job -> "absent" | "present" | "deleted" (file in UPLOAD_DIR)
    msg,          \* job -> "none" | "visible" | "inflight" | "deleted" (SQS message)
    redeliveries, \* visibility timeouts elapsed so far
    vehicles,     \* imported_vehicles: sequence of [placa, job_id]
    pc,           \* worker -> position in ImportWorker.start / process_job
    cur,          \* worker -> job_id of the message being handled (0 = none)
    seen,         \* worker -> status of the row get_by_id returned (until step 2)
    done,         \* worker -> rows of the file consumed so far
    total_processed, \* worker -> local total_processed
    total_errors, \* worker -> local total_errors
    buf           \* worker -> vehicles_to_insert (normalized placas)

(* one process_job call followed with everything it writes: job_logs, the  *)
(* events it publishes and the clock its throttle reads                    *)
VARIABLES
    sheet,        \* rows of the staged file of the followed job
    file_ext,     \* "csv" | "xlsx"
    has_columns,  \* the header carries modelo, placa, ano, valor_fipe
    chunk_size,   \* settings.batch_size of this worker
    job,          \* the import_jobs row of the followed job
    job_logs,     \* levels of the job_logs lines of the job, in order
    events,       \* what _publish_event_async was called with, in order
    file_exists,  \* the staged file is in UPLOAD_DIR
    now,          \* datetime.utcnow(), in whole seconds
    last_progress_update, \* self._last_progress_update[job_id]
    at,           \* position in process_job
    offset,       \* rows read_file has yielded so far
    yielded,      \* the chunks read_file has yielded so far
    local         \* total_processed, total_errors, vehicles_to_insert

(* the Event Bus (JobEventManager), the publish calls of the followed      *)
(* process_job and the connections to GET /imports/stream                  *)
VARIABLES
    subscribers,  \* self._subscribers: key -> its list of queues (by connection)
    queues,       \* connection -> content of the asyncio.Queue subscribe gave it
    lock,         \* self._lock is held
    pub,          \* the publish call that holds the lock: event, queues still to put to
    published,    \* which entries of events have been taken up by a publish call
    loop_running, \* loop.is_running() as _publish_event_async finds it
    gen,          \* connection -> position of its event_generator
    param,        \* connection -> the job_id query parameter
    sent,         \* connection -> what event_generator has yielded, in order
    deliveries    \* times the message of the followed job has been received

(* one SSEClient as a hook uses it: new SSEClient(url, options), connect() *)
(* on mount, disconnect() on unmount                                       *)
VARIABLES
    options,      \* this.options
    hook,         \* "mounting" | "mounted" | "unmounted"
    readyState,   \* this.eventSource?.readyState, "null" while there is none
    reconnectAttempts, \* this.reconnectAttempts
    timeouts,     \* setTimeout callbacks of scheduleReconnect not yet run
    isConnecting, \* this.isConnecting
    isConnected,  \* this.isConnected
    emitted,      \* the event types emit() was called with, in order
    scheduled,    \* the delays scheduleReconnect has set since the last open
    opens         \* times the stream has opened

(* one SSEClient under any order of calls of its methods: what the        *)
(* variables above leave out                                               *)
VARIABLES
    reconnectTimer, \* the timeout this.reconnectTimer names has neither run nor been cleared
    orphans,      \* EventSources not CLOSED that this.eventSource no longer names
    eventHandlers, \* event type -> the callback is in this.eventHandlers.get(type)
    wrapper,      \* event type -> the listener connect() added to the EventSource
    direct,       \* event type -> listeners on() added to the EventSource
    ons,          \* event type -> calls of on() for the callback so far
    received,     \* type of the server event received last since on() or off() was called
    invoked,      \* times that event invoked the callback
    disconnected, \* disconnect() has returned and the caller has not called connect() since
    returned,     \* the last connect() of the caller returned at its first line
    calls         \* method calls, server events and lost streams so far

apiVars == <<reconnectTimer, orphans, eventHandlers, wrapper, direct, ons, received, invoked,
             disconnected, returned, calls>>

(* UploadForm: its state, the handleUpload call in progress and the POST   *)
(* /imports requests it has made                                           *)
VARIABLES
    fileList,     \* useState fileList: the files selected, in order
    uploading,    \* useState uploading
    uploadResults, \* useState uploadResults
    up,           \* handleUpload in progress: its fileList, i, results, awaiting a response
    posted,       \* filenames createJob.mutateAsync was called with by that call, in order
    created       \* jobs the server has created for this form

formVars == <<fileList, uploading, uploadResults, up, posted, created>>

(* useJobSSE for one job: the hook's state, its two requests and the row   *)
(* of the job at the server                                                *)
VARIABLES
    job_row,       \* the import_jobs row of the job the page shows: status, processed_rows
    fetch,        \* GET /imports/{id}: at "sent" | "answered" | "done", body of the answer
    stream,       \* GET /imports/stream?job_id: "connecting" | "open"
    inbox,        \* SSE messages the server has sent that the hook has not handled, in order
    detail,       \* useState job (null_job = null)
    last_status,  \* status of the last job_status event the hook handled
    decreased     \* an update of job lowered processed_rows

detailVars == <<job_row, fetch, stream, inbox, detail, last_status, decreased>>

(* useJobsSSE on the jobs page: the hook's state, its two requests and the *)
(* rows of the jobs at the server                                          *)
VARIABLES
    jobs_filter,  \* params.status ("" = no filter)
    all_rows,     \* job id -> its import_jobs row: status (NOJOB = not uploaded), processed_rows
    list_fetch,   \* GET /imports: at "sent" | "answered" | "done", body of the answer
    list_stream,  \* GET /imports/stream: "connecting" | "open"
    list_inbox,   \* SSE messages sent that the hook has not handled, in order
    jobs          \* useState jobs

listVars == <<jobs_filter, all_rows, list_fetch, list_stream, list_inbox, jobs>>

(* DynamicUploadForm with the ColumnMapping it renders *)
VARIABLES
    currentStep,  \* useState currentStep
    file,         \* useState file: the number of the file selected (0 = null)
    preview,      \* useState preview: the file whose columns it holds (0 = null)
    mappingConfig, \* useState mappingConfig: <<>> for null, <<config>> otherwise
    analysing,    \* files whose previewMutation.mutateAsync has not settled
    submitted     \* what createJob.mutateAsync was called with: <<>> or <<[file, mappingConfig]>>

dynVars == <<currentStep, file, preview, mappingConfig, analysing, submitted>>

compVars == <<formVars, detailVars, listVars, dynVars>>
uiVars == <<apiVars, compVars>>

busVars == <<subscribers, queues, lock, pub, published, loop_running, gen, param, sent,
             deliveries>>
clientVars == <<options, hook, readyState, reconnectAttempts, timeouts, isConnecting,
                isConnected, emitted, scheduled, opens>>

runVars == <<sheet, file_ext, has_columns, chunk_size, job, job_logs, events, file_exists,
             now, last_progress_update, at, offset, yielded, local>>

jobVars == <<status, total_rows, processed_rows, error_rows, started_at, finished_at>>
workerVars == <<pc, cur, seen, done, total_processed, total_errors, buf>>
queueVars == <<content, subPc, jobVars, staged, msg, redeliveries, workerVars>>
serverVars == <<queueVars, vehicles, runVars, busVars>>
vars == <<content, subPc, jobVars, staged, msg, redeliveries, vehicles, workerVars, runVars,
          busVars, clientVars, uiVars>>

(* DEFAULT of datetime.min in _last_progress_update.get: a time more than *)
(* a second before any reading of the clock                                *)
DATETIME_MIN == -1

(* no process_job call is followed *)
NoRun ==
    /\ sheet = <<>>
    /\ file_ext = "csv"
    /\ has_columns = TRUE
    /\ chunk_size = BATCH_SIZE
    /\ job = [status |-> NOJOB, total_rows |-> NULL, processed_rows |-> 0, error_rows |-> 0,
              started_at |-> FALSE, finished_at |-> FALSE]
    /\ job_logs = <<>>
    /\ events = <<>>
    /\ file_exists = FALSE
    /\ now = 0
    /\ last_progress_update = DATETIME_MIN
    /\ at = "off"
    /\ offset = 0
    /\ yielded = <<>>
    /\ local = [total_processed |-> 0, total_errors |-> 0, vehicles_to_insert |-> <<>>]

Conns == 1..NumConns

(* the key of the subscribers to every job *)
ALL == "__all__"

(* the job_id query parameter is not given (None) *)
NoJobId == ""

(* JobEventManager.__init__, no publish call, no connection *)
NoBus ==
    /\ subscribers = [k \in {ALL} |-> <<>>]
    /\ queues = [c \in Conns |-> <<>>]
    /\ lock = FALSE
    /\ pub = <<>>
    /\ published = {}
    /\ loop_running = FALSE
    /\ gen = [c \in Conns |-> "idle"]
    /\ param = [c \in Conns |-> NoJobId]
    /\ sent = [c \in Conns |-> <<>>]
    /\ deliveries = 0

(* options.maxReconnectAttempts ?? Infinity: a number no counter reaches   *)
Infinity == 1000000

(* the defaults of the SSEClient constructor, in milliseconds *)
DefaultOptions ==
    [reconnectDelay |-> 1000, maxReconnectDelay |-> 30000, backoffMultiplier |-> 2,
     maxReconnectAttempts |-> Infinity]

(* the field initializers of SSEClient *)
NewClient ==
    /\ hook = "mounting"
    /\ readyState = "null"
    /\ reconnectAttempts = 0
    /\ timeouts = 0
    /\ isConnecting = FALSE
    /\ isConnected = FALSE
    /\ emitted = <<>>
    /\ scheduled = <<>>
    /\ opens = 0

(* no SSEClient is followed *)
NoClient ==
    /\ options = DefaultOptions
    /\ NewClient

(* the event types a callback is registered for *)
EventTypes == {"job_status", "connected", "message"}

(* the field initializers of SSEClient: no handler, no EventSource, no timer *)
NoApi ==
    /\ reconnectTimer = FALSE
    /\ orphans = 0
    /\ eventHandlers = [t \in EventTypes |-> FALSE]
    /\ wrapper = [t \in EventTypes |-> "none"]
    /\ direct = [t \in EventTypes |-> 0]
    /\ ons = [t \in EventTypes |-> 0]
    /\ received = "none"
    /\ invoked = 0
    /\ disconnected = FALSE
    /\ returned = FALSE
    /\ calls = 0

(* UploadForm as it mounts, no upload started *)
NoForm ==
    /\ fileList = <<>>
    /\ uploading = FALSE
    /\ uploadResults = <<>>
    /\ up = [fileList |-> <<>>, i |-> 0, results |-> <<>>, awaiting |-> FALSE]
    /\ posted = <<>>
    /\ created = 0

(* useState<ImportJobDetail | null>(null) *)
null_job == [status |-> "null", processed_rows |-> 0]

(* useJobSSE as its effect has run for a job just uploaded: both requests  *)
(* are on their way                                                        *)
NoDetail ==
    /\ job_row = [status |-> PENDING, processed_rows |-> 0]
    /\ fetch = [at |-> "sent", body |-> null_job]
    /\ stream = "connecting"
    /\ inbox = <<>>
    /\ detail = null_job
    /\ last_status = "none"
    /\ decreased = FALSE

ListJobs == 1..MaxListJobs

(* useJobsSSE as its effect has run, no job uploaded yet *)
NewList ==
    /\ all_rows = [j \in ListJobs |-> [status |-> NOJOB, processed_rows |-> 0]]
    /\ list_fetch = [at |-> "sent", body |-> <<>>]
    /\ list_stream = "connecting"
    /\ list_inbox = <<>>
    /\ jobs = <<>>

(* the jobs page as it opens: statusFilter is undefined *)
NoList ==
    /\ jobs_filter = ""
    /\ NewList

(* DynamicUploadForm as it mounts *)
NoDyn ==
    /\ currentStep = "upload"
    /\ file = 0
    /\ preview = 0
    /\ mappingConfig = <<>>
    /\ analysing = {}
    /\ submitted = <<>>

(* no component of the frontend is followed *)
NoUi ==
    /\ NoApi
    /\ NoForm
    /\ NoDetail
    /\ NoList
    /\ NoDyn

Init ==
    /\ NoBus
    /\ NoClient
    /\ NoUi
    /\ content = [j \in Jobs |-> <<>>]
    /\ subPc = [j \in Jobs |-> "idle"]
    /\ status = [j \in Jobs |-> NOJOB]
    /\ total_rows = [j \in Jobs |-> NULL]
    /\ processed_rows = [j \in Jobs |-> 0]
    /\ error_rows = [j \in Jobs |-> 0]
    /\ started_at = [j \in Jobs |-> FALSE]
    /\ finished_at = [j \in Jobs |-> FALSE]
    /\ staged = [j \in Jobs |-> "absent"]
    /\ msg = [j \in Jobs |-> "none"]
    /\ redeliveries = 0
    /\ vehicles = <<>>
    /\ pc = [w \in Workers |-> "idle"]
    /\ cur = [w \in Workers |-> 0]
    /\ seen = [w \in Workers |-> NOJOB]
    /\ done = [w \in Workers |-> 0]
    /\ total_processed = [w \in Workers |-> 0]
    /\ total_errors = [w \in Workers |-> 0]
    /\ buf = [w \in Workers |-> <<>>]
    /\ NoRun

(* ------------------- ImportService.create_import_job ------------------- *)
(* 1. job_repository.create(filename): a committed row in status PENDING   *)
(* job ids are handed out in order: job j is the j-th upload               *)
SubmitCreate(j, f) ==
    /\ subPc[j] = "idle"
    /\ \A k \in Jobs : k < j => subPc[k] # "idle"
    /\ content' = [content EXCEPT ![j] = f]
    /\ status' = [status EXCEPT ![j] = PENDING]
    /\ subPc' = [subPc EXCEPT ![j] = "created"]
    /\ UNCHANGED <<busVars, clientVars, uiVars, runVars, total_rows, processed_rows, error_rows, started_at, finished_at,
                   staged, msg, redeliveries, vehicles, workerVars>>

(* 2. file_storage.save_file(file, job.id) *)
SubmitSave(j) ==
    /\ subPc[j] = "created"
    /\ staged' = [staged EXCEPT ![j] = "present"]
    /\ subPc' = [subPc EXCEPT ![j] = "saved"]
    /\ UNCHANGED <<busVars, clientVars, uiVars, runVars, content, jobVars, msg, redeliveries, vehicles, workerVars>>

(* SubmitCount with the message published before the rows are counted     *)
SubmitCount_PublishFirst(j) ==
    /\ subPc[j] = "saved"
    /\ msg' = [msg EXCEPT ![j] = "visible"]
    /\ total_rows' = [total_rows EXCEPT ![j] = count_rows(content[j])]
    /\ subPc' = [subPc EXCEPT ![j] = "counted"]
    /\ UNCHANGED <<busVars, clientVars, uiVars, runVars, content, status, processed_rows, error_rows, started_at, finished_at,
                   staged, redeliveries, vehicles, workerVars>>

(* 3. total_rows = parser.count_rows(file_path); db.commit() *)
SubmitCount(j) ==
    /\ subPc[j] = "saved"
    /\ total_rows' = [total_rows EXCEPT ![j] = count_rows(content[j])]
    /\ subPc' = [subPc EXCEPT ![j] = "counted"]
    /\ UNCHANGED <<busVars, clientVars, uiVars, runVars, content, status, processed_rows, error_rows, started_at, finished_at,
                   staged, msg, redeliveries, vehicles, workerVars>>

(* SubmitPublish run right after the job insert, before the file is saved  *)
SubmitPublish_BeforeSave(j) ==
    /\ subPc[j] \in {"created", "counted"}
    /\ msg' = [msg EXCEPT ![j] = "visible"]
    /\ subPc' = [subPc EXCEPT ![j] = "done"]
    /\ UNCHANGED <<busVars, clientVars, uiVars, runVars, content, jobVars, staged, redeliveries, vehicles, workerVars>>

(* 4. sqs_publisher.publish_job(job.id) *)
SubmitPublish(j) ==
    /\ subPc[j] = "counted"
    /\ msg' = [msg EXCEPT ![j] = "visible"]
    /\ subPc' = [subPc EXCEPT ![j] = "done"]
    /\ UNCHANGED <<busVars, clientVars, uiVars, runVars, content, jobVars, staged, redeliveries, vehicles, workerVars>>

(* save_file, count_rows or publish_job raises: create_import_job has no   *)
(* handler, the exception leaves the function with what was committed      *)
SubmitFail(j) ==
    /\ subPc[j] \in {"created", "saved", "counted"}
    /\ subPc' = [subPc EXCEPT ![j] = "failed"]
    /\ UNCHANGED <<busVars, clientVars, uiVars, runVars, content, jobVars, staged, msg, redeliveries, vehicles, workerVars>>

(* ------------------------------ database ------------------------------- *)
(* ImportJobRepository.update_status(job_id, status, started_at=...)       *)
SetStarted(j) == started_at' = [started_at EXCEPT ![j] = TRUE]

(* ImportJobRepository.update_status(job_id, status, finished_at=...)      *)
SetFinished(j) == finished_at' = [finished_at EXCEPT ![j] = TRUE]

(* update_progress adding what the caller passes to the stored counters    *)
update_progress_Add(j, p, e) ==
    /\ processed_rows' = [processed_rows EXCEPT ![j] = @ + p]
    /\ error_rows' = [error_rows EXCEPT ![j] = @ + e]

(* ImportJobRepository.update_progress: the two counters are overwritten   *)
(* with the values the caller passes                                       *)
update_progress(j, p, e) ==
    /\ processed_rows' = [processed_rows EXCEPT ![j] = p]
    /\ error_rows' = [error_rows EXCEPT ![j] = e]

(* the placa column of imported_vehicles *)
StoredPlacas == { vehicles[i].placa : i \in 1..Len(vehicles) }

(* VehicleRepository.get_placas_in_batch: which of these are in the table  *)
get_placas_in_batch(batch_placas) == batch_placas \cap StoredPlacas

SeqToSet(q) == { q[i] : i \in 1..Len(q) }

(* a placa column without the UNIQUE constraint *)
UniqueViolation_None(placas) == FALSE

(* placa VARCHAR(7) NOT NULL UNIQUE: would inserting these placas violate  *)
(* the constraint                                                          *)
UniqueViolation(placas) ==
    \/ SeqToSet(placas) \cap StoredPlacas # {}
    \/ Cardinality(SeqToSet(placas)) # Len(placas)

(* the rows create_bulk adds for job j *)
NewVehicles(j, placas) == [i \in 1..Len(placas) |-> [placa |-> placas[i], job_id |-> j]]

(* ------------------- JobProcessor.process_job, step 3.1-3.3 ------------ *)
(* batch_placas of a chunk *)
BatchPlacas(chunk) == { NormalizePlaca(chunk[i].placa) : i \in 1..Len(chunk) }

(* seen_in_batch after a row whose placa passed the duplicate test *)
SeenAdd(S, placa) == S \cup {placa}

(* the loop over the rows of a chunk from row i on: E is                   *)
(* existing_placas_set, S is seen_in_batch; acc holds vehicles_to_insert,  *)
(* the number of rows counted as errors, the levels of the job_logs lines  *)
(* written, and whether validate_vehicle raised (the loop stops there)     *)
RECURSIVE process_rows(_, _, _, _, _)
process_rows(chunk, i, E, S, acc) ==
    IF i > Len(chunk) THEN acc
    ELSE LET placa == NormalizePlaca(chunk[i].placa)
             verdict == validate_vehicle(chunk[i])
         IN  IF verdict = "raise"
             THEN [acc EXCEPT !.raised = TRUE]
             ELSE IF placa \in E \/ placa \in S
             THEN process_rows(chunk, i + 1, E, S,
                               [acc EXCEPT !.errors = @ + 1,
                                           !.logs = Append(@, "warning")])
             ELSE IF verdict = "invalid"
             THEN process_rows(chunk, i + 1, E, SeenAdd(S, placa),
                               [acc EXCEPT !.errors = @ + 1,
                                           !.logs = Append(@, "error")])
             ELSE process_rows(chunk, i + 1, E, SeenAdd(S, placa),
                               [acc EXCEPT !.insert = Append(@, placa)])

process_chunk(chunk) ==
    process_rows(chunk, 1, get_placas_in_batch(BatchPlacas(chunk)), {},
                 [insert |-> <<>>, errors |-> 0, logs |-> <<>>, raised |-> FALSE])

(* ------------------------- ImportWorker.start -------------------------- *)
ResetLocals(w) ==
    /\ cur' = [cur EXCEPT ![w] = 0]
    /\ seen' = [seen EXCEPT ![w] = NOJOB]
    /\ done' = [done EXCEPT ![w] = 0]
    /\ total_processed' = [total_processed EXCEPT ![w] = 0]
    /\ total_errors' = [total_errors EXCEPT ![w] = 0]
    /\ buf' = [buf EXCEPT ![w] = <<>>]

(* consumer.receive_messages, parse_message, and the first statement of    *)
(* process_job, job_repository.get_by_id; the row it returns decides       *)
(* nothing that follows.  The workers are interchangeable: the message     *)
(* goes to the first idle one                                              *)
Receive(w, j) ==
    /\ pc[w] = "idle"
    /\ \A v \in Workers : v < w => pc[v] # "idle"
    /\ msg[j] = "visible"
    /\ msg' = [msg EXCEPT ![j] = "inflight"]
    /\ cur' = [cur EXCEPT ![w] = j]
    /\ seen' = [seen EXCEPT ![w] = status[j]]
    /\ pc' = [pc EXCEPT ![w] = "start"]
    /\ UNCHANGED <<busVars, clientVars, uiVars, runVars, content, subPc, jobVars, staged, redeliveries, vehicles,
                   done, total_processed, total_errors, buf>>

(* 2. update_status(job_id, PROCESSING, started_at=utcnow())               *)
StartProcessing(w) ==
    /\ pc[w] = "start"
    /\ status' = [status EXCEPT ![cur[w]] = PROCESSING]
    /\ SetStarted(cur[w])
    /\ seen' = [seen EXCEPT ![w] = NOJOB]
    /\ pc' = [pc EXCEPT ![w] = "read"]
    /\ UNCHANGED <<busVars, clientVars, uiVars, runVars, content, subPc, total_rows, processed_rows, error_rows, finished_at,
                   staged, msg, redeliveries, vehicles,
                   cur, done, total_processed, total_errors, buf>>

(* the loop of step 3 is left: its local variables are not read again     *)
LeaveLoop(w) ==
    /\ done' = [done EXCEPT ![w] = 0]
    /\ total_processed' = [total_processed EXCEPT ![w] = 0]
    /\ total_errors' = [total_errors EXCEPT ![w] = 0]
    /\ buf' = [buf EXCEPT ![w] = <<>>]

(* 3. next chunk of parser.read_file, 3.1-3.3 on it.  The file is opened   *)
(* when the first chunk is asked for; a missing file raises, and so does   *)
(* validate_vehicle on a cell it cannot convert                            *)
NextChunk(w) ==
    /\ pc[w] = "read"
    /\ LET j == cur[w]
           chunk == read_file(content[j], done[w])
           res == process_chunk(chunk)
       IN  IF done[w] = 0 /\ staged[j] # "present"
           THEN /\ pc' = [pc EXCEPT ![w] = "except"]
                /\ LeaveLoop(w)
           ELSE IF done[w] >= Len(content[j])
           THEN /\ pc' = [pc EXCEPT ![w] = "complete"]
                /\ LeaveLoop(w)
           ELSE IF res.raised
           THEN /\ pc' = [pc EXCEPT ![w] = "except"]
                /\ LeaveLoop(w)
           ELSE /\ total_errors' = [total_errors EXCEPT ![w] = @ + res.errors]
                /\ buf' = [buf EXCEPT ![w] = res.insert]
                /\ pc' = [pc EXCEPT ![w] = "insert"]
                /\ UNCHANGED <<done, total_processed>>
    /\ UNCHANGED <<busVars, clientVars, uiVars, runVars, content, subPc, jobVars, staged, msg, redeliveries, vehicles, cur, seen>>

(* VehicleRepository.create_bulk: bulk_insert_mappings + commit; the       *)
(* UNIQUE constraint on placa rejects the whole statement                  *)
create_bulk(w) ==
    IF UniqueViolation(buf[w])
    THEN /\ pc' = [pc EXCEPT ![w] = "except"]
         /\ LeaveLoop(w)
         /\ UNCHANGED vehicles
    ELSE /\ vehicles' = vehicles \o NewVehicles(cur[w], buf[w])
         /\ total_processed' = [total_processed EXCEPT ![w] = @ + Len(buf[w])]
         /\ pc' = [pc EXCEPT ![w] = "progress"]
         /\ UNCHANGED <<done, total_errors, buf>>

(* 3.4 if vehicles_to_insert: create_bulk(...); total_processed += len     *)
BulkInsert(w) ==
    /\ pc[w] = "insert"
    /\ IF buf[w] = <<>>
       THEN /\ pc' = [pc EXCEPT ![w] = "progress"]
            /\ UNCHANGED <<vehicles, done, total_processed, total_errors, buf>>
       ELSE create_bulk(w)
    /\ UNCHANGED <<busVars, clientVars, uiVars, runVars, content, subPc, jobVars, staged, msg, redeliveries, cur, seen>>

(* 3.5 job_repository.update_progress(job_id, total_processed, total_errors) *)
UpdateProgress(w) ==
    /\ pc[w] = "progress"
    /\ update_progress(cur[w], total_processed[w], total_errors[w])
    /\ done' = [done EXCEPT ![w] = Min(Len(content[cur[w]]), @ + BATCH_SIZE)]
    /\ buf' = [buf EXCEPT ![w] = <<>>]
    /\ pc' = [pc EXCEPT ![w] = "read"]
    /\ UNCHANGED <<busVars, clientVars, uiVars, runVars, content, subPc, status, total_rows, started_at, finished_at,
                   staged, msg, redeliveries, vehicles,
                   cur, seen, total_processed, total_errors>>

(* 4. update_status(job_id, COMPLETED, finished_at=utcnow())               *)
Complete(w) ==
    /\ pc[w] = "complete"
    /\ status' = [status EXCEPT ![cur[w]] = COMPLETED]
    /\ SetFinished(cur[w])
    /\ pc' = [pc EXCEPT ![w] = "delete_file"]
    /\ UNCHANGED <<busVars, clientVars, uiVars, runVars, content, subPc, total_rows, processed_rows, error_rows, started_at,
                   staged, msg, redeliveries, vehicles,
                   cur, seen, done, total_processed, total_errors, buf>>

(* 5. file_storage.delete_file(job_id, file_ext); process_job returns      *)
DeleteFile(w) ==
    /\ pc[w] = "delete_file"
    /\ staged' = [staged EXCEPT ![cur[w]] = "deleted"]
    /\ pc' = [pc EXCEPT ![w] = "ack"]
    /\ UNCHANGED <<busVars, clientVars, uiVars, runVars, content, subPc, jobVars, msg, redeliveries, vehicles,
                   cur, seen, done, total_processed, total_errors, buf>>

(* WorkerExcept with delete_message also run on the exception path         *)
WorkerExcept_Deletes(w) ==
    /\ pc' = [pc EXCEPT ![w] = "idle"]
    /\ ResetLocals(w)
    /\ msg' = [msg EXCEPT ![cur[w]] = "deleted"]

(* what ImportWorker.start does when process_job raised: it logs           *)
(* job_processing_error and goes on to the next receive; the message is    *)
(* left in the queue                                                       *)
WorkerExcept(w) ==
    /\ pc' = [pc EXCEPT ![w] = "idle"]
    /\ ResetLocals(w)
    /\ UNCHANGED msg

(* process_job returned: ImportWorker.start goes on to delete_message      *)
WorkerReturn(w) ==
    /\ pc' = [pc EXCEPT ![w] = "ack"]
    /\ UNCHANGED <<msg, cur, seen, done, total_processed, total_errors, buf>>

(* except Exception in process_job: update_status(job_id, FAILED,          *)
(* finished_at=utcnow()), log_repository.create, publish.  The file is     *)
(* kept.  Whether the handler ends with `raise` is not shown: both         *)
(* endings are allowed                                                     *)
HandleFailure(w) ==
    /\ pc[w] = "except"
    /\ status' = [status EXCEPT ![cur[w]] = FAILED]
    /\ SetFinished(cur[w])
    /\ \/ WorkerExcept(w)
       \/ WorkerReturn(w)
    /\ UNCHANGED <<busVars, clientVars, uiVars, runVars, content, subPc, total_rows, processed_rows, error_rows, started_at,
                   staged, redeliveries, vehicles>>

(* 3. consumer.delete_message(receipt_handle) *)
DeleteMessage(w) ==
    /\ pc[w] = "ack"
    /\ msg' = [msg EXCEPT ![cur[w]] = "deleted"]
    /\ pc' = [pc EXCEPT ![w] = "idle"]
    /\ ResetLocals(w)
    /\ UNCHANGED <<busVars, clientVars, uiVars, runVars, content, subPc, jobVars, staged, redeliveries, vehicles>>

(* ---------------------------- environment ------------------------------ *)
(* the worker process stops (kill, host loss) in the middle of a message;  *)
(* nothing deletes the message, so its visibility timeout elapses          *)
Crash(w) ==
    /\ pc[w] # "idle"
    /\ redeliveries < MaxRedeliveries
    /\ redeliveries' = redeliveries + 1
    /\ msg' = [msg EXCEPT ![cur[w]] = IF @ = "inflight" THEN "visible" ELSE @]
    /\ pc' = [pc EXCEPT ![w] = "idle"]
    /\ ResetLocals(w)
    /\ UNCHANGED <<busVars, clientVars, uiVars, runVars, content, subPc, jobVars, staged, vehicles>>

(* SQS: the visibility timeout of a received, undeleted message elapses,   *)
(* whether or not a worker is still busy with it                           *)
VisibilityTimeout(j) ==
    /\ msg[j] = "inflight"
    /\ redeliveries < MaxRedeliveries
    /\ msg' = [msg EXCEPT ![j] = "visible"]
    /\ redeliveries' = redeliveries + 1
    /\ UNCHANGED <<busVars, clientVars, uiVars, runVars, content, subPc, jobVars, staged, vehicles, workerVars>>

Next ==
    \/ \E j \in Jobs, f \in Files : SubmitCreate(j, f)
    \/ \E j \in Jobs : SubmitSave(j)
    \/ \E j \in Jobs : SubmitCount(j)
    \/ \E j \in Jobs : SubmitPublish(j)
    \/ \E j \in Jobs : SubmitFail(j)
    \/ \E w \in Workers, j \in Jobs : Receive(w, j)
    \/ \E w \in Workers : StartProcessing(w)
    \/ \E w \in Workers : NextChunk(w)
    \/ \E w \in Workers : BulkInsert(w)
    \/ \E w \in Workers : UpdateProgress(w)
    \/ \E w \in Workers : Complete(w)
    \/ \E w \in Workers : DeleteFile(w)
    \/ \E w \in Workers : HandleFailure(w)
    \/ \E w \in Workers : DeleteMessage(w)
    \/ \E w \in Workers : Crash(w)
    \/ \E j \in Jobs : VisibilityTimeout(j)

Spec == Init /\ [][Next]_vars

(* =============== one process_job call, followed in full ================ *)
(* Job RunJob was submitted (row PENDING, file staged, total_rows counted) *)
(* and its message is delivered once to one worker; nothing else writes    *)
(* imported_vehicles meanwhile.  Inputs: the file, its type, whether its   *)
(* header is complete, and the configured chunk size.                      *)
RunJob == 1

RunInit ==
    /\ NoBus
    /\ NoClient
    /\ NoUi
    /\ sheet \in RunFiles
    /\ file_ext \in {"csv", "xlsx"}
    /\ has_columns \in BOOLEAN
    /\ chunk_size \in 1..MaxChunkSize
    /\ job = [status |-> PENDING, total_rows |-> count_rows(sheet),
              processed_rows |-> 0, error_rows |-> 0,
              started_at |-> FALSE, finished_at |-> FALSE]
    /\ job_logs = <<>>
    /\ events = <<>>
    /\ file_exists = TRUE
    /\ now = 0
    /\ last_progress_update = DATETIME_MIN
    /\ at = "start"
    /\ offset = 0
    /\ yielded = <<>>
    /\ local = [total_processed |-> 0, total_errors |-> 0, vehicles_to_insert |-> <<>>]
    /\ content = [j \in Jobs |-> <<>>]
    /\ subPc = [j \in Jobs |-> "idle"]
    /\ status = [j \in Jobs |-> NOJOB]
    /\ total_rows = [j \in Jobs |-> NULL]
    /\ processed_rows = [j \in Jobs |-> 0]
    /\ error_rows = [j \in Jobs |-> 0]
    /\ started_at = [j \in Jobs |-> FALSE]
    /\ finished_at = [j \in Jobs |-> FALSE]
    /\ staged = [j \in Jobs |-> "absent"]
    /\ msg = [j \in Jobs |-> "none"]
    /\ redeliveries = 0
    /\ vehicles = <<>>
    /\ pc = [w \in Workers |-> "idle"]
    /\ cur = [w \in Workers |-> 0]
    /\ seen = [w \in Workers |-> NOJOB]
    /\ done = [w \in Workers |-> 0]
    /\ total_processed = [w \in Workers |-> 0]
    /\ total_errors = [w \in Workers |-> 0]
    /\ buf = [w \in Workers |-> <<>>]

(* self._publish_event_async(job_id, event_type, {...}): the event with    *)
(* the job's status and counters as they are stored after this step        *)
publish_event(event_type, row) ==
    Append(events, [event_type |-> event_type, status |-> row.status,
                    processed_rows |-> row.processed_rows,
                    error_rows |-> row.error_rows, time |-> now])

(* 2. update_status(job_id, PROCESSING, started_at=utcnow()); publish      *)
RunStart ==
    /\ at = "start"
    /\ LET row == [job EXCEPT !.status = PROCESSING, !.started_at = TRUE]
       IN  /\ job' = row
           /\ events' = publish_event("status_update", row)
    /\ at' = "read"
    /\ UNCHANGED <<sheet, file_ext, has_columns, chunk_size, job_logs, file_exists, now,
                   last_progress_update, offset, yielded, local, queueVars, vehicles, busVars, clientVars, uiVars>>

(* cls._validate_columns raises on this request for a chunk: for .xlsx it  *)
(* runs once on the whole sheet before the first slice, for .csv on every  *)
(* chunk that is read                                                      *)
validate_columns_raises ==
    /\ ~has_columns
    /\ \/ file_ext = "xlsx" /\ offset = 0
       \/ file_ext = "csv" /\ offset < Len(sheet)

(* 3. the next chunk of read_file(file_path, chunk_size=batch_size) and    *)
(* steps 3.1-3.3 on it: every rejected row is written to job_logs.  The    *)
(* file is opened when the first chunk is asked for; a missing file raises *)
RunNextChunk ==
    /\ at = "read"
    /\ LET chunk == iloc(sheet, offset, chunk_size)
           res == process_chunk(chunk)
       IN  IF validate_columns_raises \/ (offset = 0 /\ ~file_exists)
           THEN /\ at' = "except"
                /\ UNCHANGED <<job_logs, yielded, local>>
           ELSE IF offset >= Len(sheet)
           THEN /\ at' = "complete"
                /\ UNCHANGED <<job_logs, yielded, local>>
           ELSE /\ yielded' = Append(yielded, chunk)
                /\ job_logs' = job_logs \o res.logs
                /\ IF res.raised
                   THEN /\ at' = "except"
                        /\ UNCHANGED local
                   ELSE /\ at' = "insert"
                        /\ local' = [local EXCEPT !.total_errors = @ + res.errors,
                                                  !.vehicles_to_insert = res.insert]
    /\ UNCHANGED <<sheet, file_ext, has_columns, chunk_size, job, events, file_exists, now,
                   last_progress_update, offset, queueVars, vehicles, busVars, clientVars, uiVars>>

(* 3.4 if vehicles_to_insert: create_bulk(...); total_processed += len     *)
RunBulkInsert ==
    /\ at = "insert"
    /\ IF local.vehicles_to_insert = <<>>
       THEN /\ at' = "progress"
            /\ UNCHANGED <<vehicles, local>>
       ELSE IF UniqueViolation(local.vehicles_to_insert)
       THEN /\ at' = "except"
            /\ UNCHANGED <<vehicles, local>>
       ELSE /\ vehicles' = vehicles \o NewVehicles(RunJob, local.vehicles_to_insert)
            /\ local' = [local EXCEPT !.total_processed = @ + Len(local.vehicles_to_insert)]
            /\ at' = "progress"
    /\ UNCHANGED <<sheet, file_ext, has_columns, chunk_size, job, job_logs, events,
                   file_exists, now, last_progress_update, offset, yielded, queueVars, busVars, clientVars, uiVars>>

(* the test of step 3.6: at least one second since the last publication    *)
throttle_open == now - last_progress_update >= 1

(* self._last_progress_update[job_id] is set to the time of a publication  *)
remember_progress_update == last_progress_update' = now

(* 3.5 update_progress(job_id, total_processed, total_errors); 3.6 publish *)
(* progress_update if the throttle allows; the loop goes to the next chunk *)
RunUpdateProgress ==
    /\ at = "progress"
    /\ LET row == [job EXCEPT !.processed_rows = local.total_processed,
                              !.error_rows = local.total_errors]
       IN  /\ job' = row
           /\ IF throttle_open
              THEN /\ events' = publish_event("progress_update", row)
                   /\ remember_progress_update
              ELSE UNCHANGED <<events, last_progress_update>>
    /\ offset' = Min(Len(sheet), offset + chunk_size)
    /\ local' = [local EXCEPT !.vehicles_to_insert = <<>>]
    /\ at' = "read"
    /\ UNCHANGED <<sheet, file_ext, has_columns, chunk_size, job_logs, file_exists, now,
                   yielded, queueVars, vehicles, busVars, clientVars, uiVars>>

(* 4. update_status(job_id, COMPLETED, finished_at=utcnow()); publish      *)
RunComplete ==
    /\ at = "complete"
    /\ LET row == [job EXCEPT !.status = COMPLETED, !.finished_at = TRUE]
       IN  /\ job' = row
           /\ events' = publish_event("status_update", row)
    /\ at' = "delete_file"
    /\ UNCHANGED <<sheet, file_ext, has_columns, chunk_size, job_logs, file_exists, now,
                   last_progress_update, offset, yielded, local, queueVars, vehicles, busVars, clientVars, uiVars>>

(* 5. file_storage.delete_file(job_id, file_ext); process_job returns      *)
RunDeleteFile ==
    /\ at = "delete_file"
    /\ file_exists' = FALSE
    /\ at' = "returned"
    /\ UNCHANGED <<sheet, file_ext, has_columns, chunk_size, job, job_logs, events, now,
                   last_progress_update, offset, yielded, local, queueVars, vehicles, busVars, clientVars, uiVars>>

(* except Exception: update_status(job_id, FAILED, finished_at=utcnow()),  *)
(* log_repository.create(job_id, "error", ...), publish status_update.     *)
(* The staged file is not touched                                          *)
RunHandleFailure ==
    /\ at = "except"
    /\ LET row == [job EXCEPT !.status = FAILED, !.finished_at = TRUE]
       IN  /\ job' = row
           /\ events' = publish_event("status_update", row)
    /\ job_logs' = Append(job_logs, "error")
    /\ at' = "failed"
    /\ UNCHANGED <<sheet, file_ext, has_columns, chunk_size, file_exists, now,
                   last_progress_update, offset, yielded, local, queueVars, vehicles, busVars, clientVars, uiVars>>

(* a second passes while process_job runs *)
Tick ==
    /\ at \notin {"returned", "failed"}
    /\ now < MaxTime
    /\ now' = now + 1
    /\ UNCHANGED <<sheet, file_ext, has_columns, chunk_size, job, job_logs, events,
                   file_exists, last_progress_update, at, offset, yielded, local,
                   queueVars, vehicles, busVars, clientVars, uiVars>>

RunNext ==
    \/ RunStart
    \/ RunNextChunk
    \/ RunBulkInsert
    \/ RunUpdateProgress
    \/ RunComplete
    \/ RunDeleteFile
    \/ RunHandleFailure
    \/ Tick

RunSpec == RunInit /\ [][RunNext]_vars

(* ============ the Event Bus and the stream of a followed job =========== *)
(* The process_job calls of job RunJob publish through JobEventManager     *)
(* while connections to GET /imports/stream subscribe, read and go away.   *)
(* The message of the job is received again when a call did not end in     *)
(* delete_message.                                                         *)

(* the pipeline is not running: nothing was uploaded, the workers idle     *)
NoPipeline ==
    /\ content = [j \in Jobs |-> <<>>]
    /\ subPc = [j \in Jobs |-> "idle"]
    /\ status = [j \in Jobs |-> NOJOB]
    /\ total_rows = [j \in Jobs |-> NULL]
    /\ processed_rows = [j \in Jobs |-> 0]
    /\ error_rows = [j \in Jobs |-> 0]
    /\ started_at = [j \in Jobs |-> FALSE]
    /\ finished_at = [j \in Jobs |-> FALSE]
    /\ staged = [j \in Jobs |-> "absent"]
    /\ msg = [j \in Jobs |-> "none"]
    /\ redeliveries = 0
    /\ vehicles = <<>>
    /\ pc = [w \in Workers |-> "idle"]
    /\ cur = [w \in Workers |-> 0]
    /\ seen = [w \in Workers |-> NOJOB]
    /\ done = [w \in Workers |-> 0]
    /\ total_processed = [w \in Workers |-> 0]
    /\ total_errors = [w \in Workers |-> 0]
    /\ buf = [w \in Workers |-> <<>>]

(* str(job_id) of the followed job, the key its events are published      *)
(* under (_publish_event_async takes job_id: str), and of a job_id no job  *)
(* has                                                                     *)
RunJobId == "1"
OtherJobId == "2"

(* the values of the job_id query parameter *)
Params == {NoJobId, RunJobId, OtherJobId}

(* the files of the followed job: one valid row, two valid rows with       *)
(* different plates, a valid row followed by one validate_vehicle rejects  *)
(* by raising                                                              *)
BusFiles ==
    { << [placa |-> <<"a">>, ano |-> "2020"] >>,
      << [placa |-> <<"a">>, ano |-> "2020"], [placa |-> <<"b">>, ano |-> "2020"] >>,
      << [placa |-> <<"a">>, ano |-> "2020"], [placa |-> <<"b">>, ano |-> "abc"] >> }

BusInit ==
    /\ NoPipeline
    /\ NoClient
    /\ NoUi
    /\ sheet \in BusFiles
    /\ file_ext = "csv"
    /\ has_columns = TRUE
    /\ chunk_size \in 1..MaxChunkSize
    /\ job = [status |-> PENDING, total_rows |-> count_rows(sheet),
              processed_rows |-> 0, error_rows |-> 0,
              started_at |-> FALSE, finished_at |-> FALSE]
    /\ job_logs = <<>>
    /\ events = <<>>
    /\ file_exists = TRUE
    /\ now = 0
    /\ last_progress_update = DATETIME_MIN
    /\ at = "start"
    /\ offset = 0
    /\ yielded = <<>>
    /\ local = [total_processed |-> 0, total_errors |-> 0, vehicles_to_insert |-> <<>>]
    /\ subscribers = [k \in {ALL} |-> <<>>]
    /\ queues = [c \in Conns |-> <<>>]
    /\ lock = FALSE
    /\ pub = <<>>
    /\ published = {}
    /\ loop_running \in BOOLEAN
    /\ gen = [c \in Conns |-> "idle"]
    /\ param = [c \in Conns |-> NoJobId]
    /\ sent = [c \in Conns |-> <<>>]
    /\ deliveries = 1

(* event = {"job_id": job_id, "event_type": event_type, "data": data},     *)
(* from what _publish_event_async was called with                          *)
Event(job_id, e) ==
    [job_id |-> job_id, event_type |-> e.event_type,
     data |-> [status |-> e.status, processed_rows |-> e.processed_rows,
               error_rows |-> e.error_rows]]

(* the publish calls _publish_event_async has made that have not started   *)
pending == (1..Len(events)) \ published

(* the newest waiting publish call is run first *)
next_task_Newest(P) == CHOOSE i \in P : \A k \in P : i >= k

(* asyncio.create_task(publish(...)): the loop runs the tasks in the order *)
(* they were created; run_until_complete and asyncio.run run the one call  *)
next_task(P) == CHOOSE i \in P : \A k \in P : i <= k

(* process_job goes on after _publish_event_async: at once when the call   *)
(* became a task of the running loop, after publish has finished when it   *)
(* was run with run_until_complete or asyncio.run                          *)
publish_returned == loop_running \/ (pending = {} /\ pub = <<>>)

(* dict lookup guarded by `in` *)
QueuesOf(key) == IF key \in DOMAIN subscribers THEN subscribers[key] ELSE <<>>

(* the queues of every key *)
publish_targets_EveryKey(job_id) ==
    QueuesOf(job_id) \o QueuesOf(ALL) \o QueuesOf(OtherJobId)

(* the queues publish puts to: those of job_id, then those of "__all__"    *)
publish_targets(job_id) == QueuesOf(job_id) \o QueuesOf(ALL)

(* publish: async with self._lock is entered for the next publish call     *)
publish_lock ==
    /\ pending # {}
    /\ ~lock
    /\ lock' = TRUE
    /\ LET i == next_task(pending)
       IN  /\ pub' = << [event |-> Event(RunJobId, events[i]),
                         todo |-> publish_targets(RunJobId)] >>
           /\ published' = published \cup {i}
    /\ UNCHANGED <<subscribers, queues, loop_running, gen, param, sent, deliveries,
                   runVars, queueVars, vehicles, clientVars, uiVars>>

(* the queues after event was put to each queue of todo, in order *)
RECURSIVE PutAll(_, _, _)
PutAll(Q, todo, event) ==
    IF todo = <<>> THEN Q
    ELSE PutAll([Q EXCEPT ![Head(todo)] = Append(@, event)], Tail(todo), event)

(* publish: the two loops of await queue.put(event), after which the       *)
(* async with block is left.  The queues have no maxsize: put never waits  *)
(* and never drops, so the loops run without a pause                       *)
publish_put ==
    /\ pub # <<>>
    /\ queues' = PutAll(queues, pub[1].todo, pub[1].event)
    /\ pub' = <<>>
    /\ lock' = FALSE
    /\ UNCHANGED <<subscribers, published, loop_running, gen, param, sent, deliveries,
                   runVars, queueVars, vehicles, clientVars, uiVars>>

(* self._subscribers[key].append(queue), the key created when missing *)
AddQueue(key, c) ==
    [k \in DOMAIN subscribers \cup {key} |->
        IF k = key THEN Append(QueuesOf(key), c) ELSE subscribers[k]]

(* event_generator, 1: queue = await event_manager.subscribe(job_id), the  *)
(* whole of subscribe under the lock.  Connections are interchangeable:    *)
(* they arrive in the order of their numbers                               *)
subscribe(c, job_id) ==
    /\ gen[c] = "idle"
    /\ \A d \in Conns : d < c => gen[d] # "idle"
    /\ ~lock
    /\ subscribers' = AddQueue(IF job_id # NoJobId THEN job_id ELSE ALL, c)
    /\ queues' = [queues EXCEPT ![c] = <<>>]
    /\ param' = [param EXCEPT ![c] = job_id]
    /\ gen' = [gen EXCEPT ![c] = IF job_id # NoJobId THEN "initial" ELSE "stream"]
    /\ UNCHANGED <<lock, pub, published, loop_running, sent, deliveries,
                   runVars, queueVars, vehicles, clientVars, uiVars>>

(* initial_data of the job row get_by_id returned *)
initial_data(row) ==
    [event |-> "job_status", initial |-> TRUE,
     data |-> [status |-> row.status, processed_rows |-> row.processed_rows,
               error_rows |-> row.error_rows]]

(* event_generator, 2: job = get_by_id(job_uuid); if job: yield its state  *)
(* as a job_status message.  Only the followed job has a row               *)
send_initial(c) ==
    /\ gen[c] = "initial"
    /\ sent' = [sent EXCEPT ![c] = IF param[c] = RunJobId
                                   THEN Append(@, initial_data(job))
                                   ELSE @]
    /\ gen' = [gen EXCEPT ![c] = "stream"]
    /\ UNCHANGED <<subscribers, queues, lock, pub, published, loop_running, param,
                   deliveries, runVars, queueVars, vehicles, clientVars, uiVars>>

(* the SSE event name of an event type *)
sse_event_type(event_type) ==
    CASE event_type = "status_update" -> "job_status"
      [] event_type = "progress_update" -> "job_progress"
      [] OTHER -> event_type

(* the message event_generator yields for an event of its queue *)
message(event) ==
    [event |-> sse_event_type(event.event_type), initial |-> FALSE, data |-> event.data]

(* event_generator, 3: event = await queue.get(); yield message.  The      *)
(* heartbeat comment of an idle half minute is not an event and is left    *)
(* out of sent                                                             *)
stream_event(c) ==
    /\ gen[c] = "stream"
    /\ queues[c] # <<>>
    /\ sent' = [sent EXCEPT ![c] = Append(@, message(Head(queues[c])))]
    /\ queues' = [queues EXCEPT ![c] = Tail(@)]
    /\ UNCHANGED <<subscribers, lock, pub, published, loop_running, gen, param,
                   deliveries, runVars, queueVars, vehicles, clientVars, uiVars>>

(* the client goes away: the generator is closed where it waits, and what  *)
(* it had yielded is gone with the connection.  It has no finally block    *)
(* and JobEventManager no way to remove a queue                            *)
client_disconnects(c) ==
    /\ gen[c] \in {"initial", "stream"}
    /\ gen' = [gen EXCEPT ![c] = "closed"]
    /\ sent' = [sent EXCEPT ![c] = <<>>]
    /\ UNCHANGED <<subscribers, queues, lock, pub, published, loop_running, param,
                   deliveries, runVars, queueVars, vehicles, clientVars, uiVars>>

(* the message of the job is received again.  The call before it has      *)
(* ended and delete_message did not follow: process_job raised (the worker *)
(* leaves the message in the queue), or it returned and the worker stopped *)
(* there.  process_job starts from its first statement with fresh locals;  *)
(* the throttle table belongs to the JobProcessor and is kept              *)
Redeliver ==
    /\ at \in {"failed", "returned"}
    /\ deliveries < MaxDeliveries
    /\ deliveries' = deliveries + 1
    /\ at' = "start"
    /\ offset' = 0
    /\ yielded' = <<>>
    /\ local' = [total_processed |-> 0, total_errors |-> 0, vehicles_to_insert |-> <<>>]
    /\ UNCHANGED <<sheet, file_ext, has_columns, chunk_size, job, job_logs, events,
                   file_exists, now, last_progress_update,
                   subscribers, queues, lock, pub, published, loop_running, gen, param, sent,
                   queueVars, vehicles, clientVars, uiVars>>

BusNext ==
    \/ publish_returned /\ RunStart
    \/ publish_returned /\ RunNextChunk
    \/ publish_returned /\ RunBulkInsert
    \/ publish_returned /\ RunUpdateProgress
    \/ publish_returned /\ RunComplete
    \/ publish_returned /\ RunDeleteFile
    \/ publish_returned /\ RunHandleFailure
    \/ at = "progress" /\ ~throttle_open /\ Tick
    \/ Redeliver
    \/ publish_lock
    \/ publish_put
    \/ \E c \in Conns, job_id \in Params : subscribe(c, job_id)
    \/ \E c \in Conns : send_initial(c)
    \/ \E c \in Conns : stream_event(c)
    \/ \E c \in Conns : client_disconnects(c)

BusSpec == BusInit /\ [][BusNext]_vars

(* =================== one message, redelivered for ever ================= *)
(* One upload and one worker; the queue makes the message visible again    *)
(* whenever its visibility timeout elapses, without a limit.               *)
LiveJob == 1
LiveWorker == 1

(* the uploaded file: rows that are stored, rejected, or make              *)
(* validate_vehicle raise                                                  *)
LiveFiles == SeqsUpTo(RunRows, MaxRows)

(* SQS: the visibility timeout of a received, undeleted message elapses    *)
MessageReappears(j) ==
    /\ msg[j] = "inflight"
    /\ msg' = [msg EXCEPT ![j] = "visible"]
    /\ UNCHANGED <<busVars, clientVars, uiVars, runVars, content, subPc, jobVars, staged,
                   redeliveries, vehicles, workerVars>>

(* the steps of ImportWorker.start and process_job *)
WorkerStep(w) ==
    \/ Receive(w, LiveJob)
    \/ StartProcessing(w)
    \/ NextChunk(w)
    \/ BulkInsert(w)
    \/ UpdateProgress(w)
    \/ Complete(w)
    \/ DeleteFile(w)
    \/ HandleFailure(w)
    \/ DeleteMessage(w)

LiveNext ==
    \/ \E f \in LiveFiles : SubmitCreate(LiveJob, f)
    \/ SubmitSave(LiveJob)
    \/ SubmitCount(LiveJob)
    \/ SubmitPublish(LiveJob)
    \/ SubmitFail(LiveJob)
    \/ WorkerStep(LiveWorker)
    \/ MessageReappears(LiveJob)

(* the worker loop keeps running and the queue keeps redelivering *)
LiveSpec ==
    /\ Init
    /\ [][LiveNext]_vars
    /\ WF_vars(WorkerStep(LiveWorker))
    /\ WF_vars(MessageReappears(LiveJob))

(* ============================== SSEClient ============================== *)
(* One client from its construction to the unmount of the hook that made   *)
(* it.  The browser's EventSource opens the stream, loses it and retries   *)
(* by itself (readyState CONNECTING), or gives it up (readyState CLOSED).  *)

(* the options a client is constructed with, in milliseconds *)
ClientOptions ==
    [reconnectDelay : {1000, 500}, maxReconnectDelay : {30000, 3000},
     backoffMultiplier : {2, 3}, maxReconnectAttempts : {0, 1, 2, Infinity}]

ClientInit ==
    /\ NoPipeline
    /\ NoRun
    /\ NoBus
    /\ NoUi
    /\ options \in ClientOptions
    /\ NewClient

(* Math.pow on whole numbers *)
RECURSIVE Pow(_, _)
Pow(b, e) == IF e = 0 THEN 1 ELSE b * Pow(b, e - 1)

(* the delay scheduleReconnect computes when reconnectAttempts is k *)
reconnect_delay(k) ==
    Min(options.reconnectDelay * Pow(options.backoffMultiplier, k), options.maxReconnectDelay)

(* connect() that always goes on to a new EventSource *)
connect_returns_Never == FALSE

(* the first line of connect(): return while connecting or connected *)
connect_returns == isConnecting \/ isConnected

(* connect(): nothing when connecting or connected, otherwise a new        *)
(* EventSource                                                             *)
connect ==
    IF connect_returns
    THEN UNCHANGED <<readyState, isConnecting>>
    ELSE /\ isConnecting' = TRUE
         /\ readyState' = "CONNECTING"

(* the hook mounts: handlers are registered with on(), then connect()      *)
HookMounts ==
    /\ hook = "mounting"
    /\ hook' = "mounted"
    /\ connect
    /\ UNCHANGED <<options, reconnectAttempts, timeouts, isConnected, emitted, scheduled,
                   opens, busVars, runVars, queueVars, vehicles, uiVars>>

(* onopen with reconnectAttempts left as it is *)
onopen_KeepsAttempts ==
    /\ readyState = "CONNECTING"
    /\ opens < MaxOpens
    /\ opens' = opens + 1
    /\ readyState' = "OPEN"
    /\ isConnecting' = FALSE
    /\ isConnected' = TRUE
    /\ emitted' = Append(emitted, "open")
    /\ scheduled' = <<>>
    /\ UNCHANGED <<options, hook, timeouts, reconnectAttempts,
                   busVars, runVars, queueVars, vehicles, uiVars>>

(* eventSource.onopen *)
onopen ==
    /\ readyState = "CONNECTING"
    /\ opens < MaxOpens
    /\ opens' = opens + 1
    /\ readyState' = "OPEN"
    /\ isConnecting' = FALSE
    /\ isConnected' = TRUE
    /\ reconnectAttempts' = 0
    /\ emitted' = Append(emitted, "open")
    /\ scheduled' = <<>>
    /\ UNCHANGED <<options, hook, timeouts, busVars, runVars, queueVars, vehicles, uiVars>>

(* scheduleReconnect giving up only when the counter is above the limit    *)
scheduleReconnect_OneMore(em) ==
    IF reconnectAttempts > options.maxReconnectAttempts
    THEN /\ emitted' = Append(em, "max_reconnect_attempts")
         /\ UNCHANGED <<timeouts, scheduled>>
    ELSE /\ emitted' = em
         /\ timeouts' = timeouts + 1
         /\ scheduled' = Append(scheduled, reconnect_delay(reconnectAttempts))

(* scheduleReconnect(), em being what has been emitted before it is called *)
scheduleReconnect(em) ==
    IF reconnectAttempts >= options.maxReconnectAttempts
    THEN /\ emitted' = Append(em, "max_reconnect_attempts")
         /\ UNCHANGED <<timeouts, scheduled>>
    ELSE /\ emitted' = em
         /\ timeouts' = timeouts + 1
         /\ scheduled' = Append(scheduled, reconnect_delay(reconnectAttempts))

(* eventSource.onerror with readyState CLOSED: the browser has given the   *)
(* stream up                                                               *)
onerror_closed ==
    /\ readyState \in {"CONNECTING", "OPEN"}
    /\ Len(scheduled) < MaxAttempts
    /\ readyState' = "CLOSED"
    /\ isConnecting' = FALSE
    /\ isConnected' = FALSE
    /\ scheduleReconnect(Append(emitted, "error"))
    /\ UNCHANGED <<options, hook, reconnectAttempts, opens,
                   busVars, runVars, queueVars, vehicles, uiVars>>

(* eventSource.onerror with readyState CONNECTING: the open stream was     *)
(* lost and the browser retries by itself; the handler only logs           *)
onerror_connecting ==
    /\ readyState = "OPEN"
    /\ readyState' = "CONNECTING"
    /\ UNCHANGED <<options, hook, reconnectAttempts, timeouts, isConnecting, isConnected,
                   emitted, scheduled, opens, busVars, runVars, queueVars, vehicles, uiVars>>

(* the callback scheduleReconnect gave to setTimeout *)
reconnect_timeout ==
    /\ timeouts > 0
    /\ timeouts' = timeouts - 1
    /\ reconnectAttempts' = reconnectAttempts + 1
    /\ connect
    /\ UNCHANGED <<options, hook, isConnected, emitted, scheduled, opens,
                   busVars, runVars, queueVars, vehicles, uiVars>>

(* the hook unmounts: disconnect() *)
disconnect ==
    /\ hook = "mounted"
    /\ hook' = "unmounted"
    /\ timeouts' = IF timeouts > 0 THEN timeouts - 1 ELSE 0
    /\ readyState' = "null"
    /\ isConnecting' = FALSE
    /\ isConnected' = FALSE
    /\ reconnectAttempts' = 0
    /\ UNCHANGED <<options, emitted, scheduled, opens, busVars, runVars, queueVars, vehicles, uiVars>>

ClientNext ==
    \/ HookMounts
    \/ onopen
    \/ onerror_closed
    \/ onerror_connecting
    \/ reconnect_timeout
    \/ disconnect

ClientSpec == ClientInit /\ [][ClientNext]_vars

(***************************************************************************)
(* SSEClient under any order of calls of connect(), disconnect(), on() and *)
(* off(), with one callback for each event type                            *)
(***************************************************************************)

ApiInit ==
    /\ NoPipeline
    /\ NoRun
    /\ NoBus
    /\ NoClient
    /\ NoUi

(* a call or an event within the bound; connect() and disconnect() tell     *)
(* what the caller did last                                                *)
Called == calls < MaxCalls /\ calls' = calls + 1

(* what connect() does to the listeners: none when it returns at once,     *)
(* otherwise one listener for every event type of this.eventHandlers on    *)
(* the new EventSource, the old EventSource being left as it is            *)
connect_listeners ==
    IF connect_returns
    THEN UNCHANGED <<orphans, wrapper, direct>>
    ELSE /\ orphans' = orphans + (IF readyState \in {"CONNECTING", "OPEN"} THEN 1 ELSE 0)
         /\ wrapper' = [t \in EventTypes |-> IF eventHandlers[t] THEN "current" ELSE "none"]
         /\ direct' = [t \in EventTypes |-> 0]

(* the caller calls connect() *)
connect_call ==
    /\ Called
    /\ connect
    /\ connect_listeners
    /\ returned' = connect_returns
    /\ disconnected' = FALSE
    /\ UNCHANGED <<options, hook, reconnectAttempts, timeouts, isConnected, emitted, scheduled,
                   opens, reconnectTimer, eventHandlers, ons, received, invoked,
                   compVars, busVars, runVars, queueVars, vehicles>>

(* the caller calls disconnect(): clearTimeout for the timeout             *)
(* this.reconnectTimer names, close() for this.eventSource                 *)
disconnect_call ==
    /\ Called
    /\ timeouts' = IF reconnectTimer THEN timeouts - 1 ELSE timeouts
    /\ reconnectTimer' = FALSE
    /\ readyState' = "null"
    /\ wrapper' = [t \in EventTypes |-> "none"]
    /\ direct' = [t \in EventTypes |-> 0]
    /\ isConnecting' = FALSE
    /\ isConnected' = FALSE
    /\ reconnectAttempts' = 0
    /\ disconnected' = TRUE
    /\ UNCHANGED <<options, hook, emitted, scheduled, opens, orphans, eventHandlers, ons,
                   received, invoked, returned, compVars, busVars, runVars, queueVars, vehicles>>

(* on(t, callback): the callback joins the Set of t, and a listener that   *)
(* calls it is added to this.eventSource when there is one                 *)
on(t) ==
    /\ Called
    /\ ons[t] < MaxOn
    /\ ons' = [ons EXCEPT ![t] = @ + 1]
    /\ eventHandlers' = [eventHandlers EXCEPT ![t] = TRUE]
    /\ direct' = [direct EXCEPT ![t] = IF readyState # "null" THEN @ + 1 ELSE @]
    /\ received' = "none"
    /\ invoked' = 0
    /\ UNCHANGED <<clientVars, reconnectTimer, orphans, wrapper, disconnected, returned,
                   compVars, busVars, runVars, queueVars, vehicles>>

(* off(t, callback): the callback leaves the Set of t and the Set, now     *)
(* empty, leaves the map; the listeners of the EventSource stay, the one   *)
(* connect() added reading a Set the map no longer holds                   *)
off(t) ==
    /\ Called
    /\ ons[t] > 0
    /\ eventHandlers' = [eventHandlers EXCEPT ![t] = FALSE]
    /\ wrapper' = [wrapper EXCEPT ![t] = IF eventHandlers[t] /\ @ = "current" THEN "stale" ELSE @]
    /\ received' = "none"
    /\ invoked' = 0
    /\ UNCHANGED <<clientVars, reconnectTimer, orphans, direct, ons, disconnected, returned,
                   compVars, busVars, runVars, queueVars, vehicles>>

(* times a server event of type t calls the callback: through the listener *)
(* of connect(), through each listener of on(), and through emit() for the *)
(* types connect() listens to by itself                                    *)
invocations(t) ==
    (IF wrapper[t] = "current" /\ eventHandlers[t] THEN 1 ELSE 0)
    + direct[t]
    + (IF t \in {"connected", "message"} /\ eventHandlers[t] THEN 1 ELSE 0)

(* the open stream delivers a server event of type t *)
server_event(t) ==
    /\ Called
    /\ readyState = "OPEN"
    /\ received' = t
    /\ invoked' = invocations(t)
    /\ UNCHANGED <<clientVars, reconnectTimer, orphans, eventHandlers, wrapper, direct, ons,
                   disconnected, returned, compVars, busVars, runVars, queueVars, vehicles>>

(* eventSource.onerror with readyState CLOSED, scheduleReconnect() putting *)
(* the new timeout in this.reconnectTimer                                  *)
onerror_closed_call ==
    /\ Called
    /\ readyState \in {"CONNECTING", "OPEN"}
    /\ Len(scheduled) < MaxAttempts
    /\ readyState' = "CLOSED"
    /\ isConnecting' = FALSE
    /\ isConnected' = FALSE
    /\ scheduleReconnect(Append(emitted, "error"))
    /\ reconnectTimer' = (timeouts' > timeouts \/ reconnectTimer)
    /\ UNCHANGED <<options, hook, reconnectAttempts, opens, orphans, eventHandlers, wrapper,
                   direct, ons, received, invoked, disconnected, returned,
                   compVars, busVars, runVars, queueVars, vehicles>>

(* a callback scheduleReconnect gave to setTimeout runs: the one           *)
(* this.reconnectTimer names (named) or one set before it                  *)
timeout_runs(named) ==
    /\ IF named THEN reconnectTimer ELSE timeouts > (IF reconnectTimer THEN 1 ELSE 0)
    /\ reconnectTimer' = (reconnectTimer /\ ~named)
    /\ timeouts' = timeouts - 1
    /\ reconnectAttempts' = reconnectAttempts + 1
    /\ connect
    /\ connect_listeners
    /\ UNCHANGED <<options, hook, isConnected, emitted, scheduled, opens, eventHandlers, ons,
                   received, invoked, disconnected, returned, calls,
                   compVars, busVars, runVars, queueVars, vehicles>>

ApiNext ==
    \/ connect_call
    \/ disconnect_call
    \/ \E t \in EventTypes : on(t)
    \/ \E t \in EventTypes : off(t)
    \/ \E t \in EventTypes : server_event(t)
    \/ onopen
    \/ onerror_connecting
    \/ onerror_closed_call
    \/ \E named \in BOOLEAN : timeout_runs(named)

ApiSpec == ApiInit /\ [][ApiNext]_vars

(* ======================= properties of the pipeline ==================== *)
RECURSIVE SumOver(_, _)
SumOver(f, S) == IF S = {} THEN 0
                 ELSE LET x == CHOOSE y \in S : TRUE
                      IN  f[x] + SumOver(f, S \ {x})

(* the rows of imported_vehicles created by job j *)
RowsOf(j) == { i \in 1..Len(vehicles) : vehicles[i].job_id = j }

(* C1: once a job is COMPLETED or FAILED, no step sets its status to       *)
(* PROCESSING or PENDING                                                   *)
C1_TerminalIsFinal ==
    [][\A j \in Jobs : status[j] \in Terminal => status'[j] \notin {PROCESSING, PENDING}]_vars

(* C2: whenever total_rows of a job is set, processed_rows + error_rows    *)
(* is at most total_rows                                                   *)
C2_CountersWithinTotal ==
    \A j \in Jobs : total_rows[j] # NULL => processed_rows[j] + error_rows[j] <= total_rows[j]

(* C2 witness: a job whose message was delivered again has counted every   *)
(* row of its file, some as processed and some as errors                   *)
C2_Witness ==
    \E j \in Jobs : /\ redeliveries > 0
                    /\ total_rows[j] >= 2
                    /\ processed_rows[j] > 0
                    /\ error_rows[j] > 0
                    /\ processed_rows[j] + error_rows[j] = total_rows[j]

(* C3: when the message of a COMPLETED job is delivered again (the worker  *)
(* that received it read the job as COMPLETED), no step changes the job's  *)
(* status, its counters, its finished_at or its rows in the target table   *)
C3_RedeliveryIsNoOp ==
    [][\A j \in Jobs :
          (status[j] = COMPLETED /\ \E w \in Workers : cur[w] = j /\ seen[w] = COMPLETED) =>
          /\ status'[j] = COMPLETED
          /\ processed_rows'[j] = processed_rows[j]
          /\ error_rows'[j] = error_rows[j]
          /\ finished_at'[j] = finished_at[j]
          /\ Cardinality(RowsOf(j)') = Cardinality(RowsOf(j))]_vars

(* C4: while a job is not terminal, no step decreases its processed_rows   *)
(* or its error_rows                                                       *)
C4_CountersMonotone ==
    [][\A j \in Jobs : status[j] \in {PENDING, PROCESSING} =>
          /\ processed_rows'[j] >= processed_rows[j]
          /\ error_rows'[j] >= error_rows[j]]_vars

(* C5: when two workers hold the same job at the same time, the one that   *)
(* received the message second does not write the counters: never have     *)
(* both of them written a chunk's counters                                 *)
C5_SecondReceiptWritesNothing ==
    \A u, v \in Workers :
        (u # v /\ cur[u] # 0 /\ cur[u] = cur[v]) => ~(done[u] > 0 /\ done[v] > 0)

(* C6: no two rows of imported_vehicles carry the same placa               *)
C6_UniquePlaca ==
    \A i, k \in 1..Len(vehicles) : i # k => vehicles[i].placa # vehicles[k].placa

(* C6 witness: two workers on different jobs probed the same placa before  *)
(* either inserted it; one has inserted it, the other still holds it in    *)
(* vehicles_to_insert                                                      *)
C6_Witness ==
    \E u, v \in Workers :
        /\ cur[u] # 0 /\ cur[v] # 0 /\ cur[u] # cur[v]
        /\ pc[u] = "insert" /\ buf[u] # <<>>
        /\ pc[v] = "progress"
        /\ \E i \in RowsOf(cur[v]) : vehicles[i].placa = buf[u][1]

(* C7: when every job is terminal and no worker is busy, the sum of        *)
(* processed_rows equals the number of rows in imported_vehicles           *)
C7_ProcessedMatchesRows ==
    ( /\ \A j \in Jobs : status[j] \in Terminal \cup {NOJOB}
      /\ \A w \in Workers : pc[w] = "idle" )
    => SumOver(processed_rows, Jobs) = Len(vehicles)

(* C8: a message is deleted only by a worker whose process_job call for it *)
(* has returned, and then a terminal status of the job has been committed  *)
C8_DeleteAfterReturn ==
    [][\A j \in Jobs : (msg[j] # "deleted" /\ msg'[j] = "deleted") =>
          /\ finished_at[j]
          /\ \E w \in Workers : pc[w] = "ack" /\ cur[w] = j /\ pc'[w] = "idle"]_vars

(* C8 witness: process_job raised for a job, its message was not deleted   *)
(* and is visible again, while the other job's message has been deleted    *)
C8_Witness ==
    \E j, k \in Jobs : /\ status[j] = FAILED /\ msg[j] = "visible" /\ redeliveries > 0
                       /\ msg[k] = "deleted" /\ status[k] = COMPLETED

(* C9: every message that was published refers to a job that exists, whose *)
(* file was staged and whose upload ran to its end; while the message      *)
(* waits for its first receipt the job is PENDING with its file in place   *)
C9_MessageRefersToLoadableJob ==
    \A j \in Jobs :
        /\ msg[j] # "none" => (status[j] # NOJOB /\ staged[j] # "absent" /\ subPc[j] = "done")
        /\ (msg[j] = "visible" /\ ~started_at[j]) => (status[j] = PENDING /\ staged[j] = "present")

(* C9 witness: a published, not yet received message of a pending job      *)
C9_Witness ==
    \E j \in Jobs : /\ msg[j] = "visible" /\ status[j] = PENDING
                    /\ staged[j] = "present" /\ total_rows[j] = MaxRows

(* C10: an upload that failed after the job insert leaves the job PENDING  *)
(* and no message for it                                                   *)
C10_FailedSubmitLeavesPending ==
    \A j \in Jobs : subPc[j] = "failed" => status[j] = PENDING /\ msg[j] = "none"

(* C10 witness: uploads failed at each of the three steps; the one that    *)
(* failed at publish_job has its file and its total_rows                   *)
C10_Witness ==
    \E j, k \in Jobs : /\ subPc[j] = "failed" /\ staged[j] = "present" /\ total_rows[j] # NULL
                       /\ subPc[k] = "failed" /\ staged[k] = "absent"

(* C11: started_at of a job is set exactly when the job has been in        *)
(* PROCESSING (it left PENDING, and no step leads back to PENDING), and    *)
(* finished_at is set exactly when its status is COMPLETED or FAILED       *)
C11_TimestampsFollowStatus ==
    \A j \in Jobs :
        /\ started_at[j] <=> status[j] \in {PROCESSING, COMPLETED, FAILED}
        /\ finished_at[j] <=> status[j] \in Terminal

(* C13: from the end of staging on, the staged file of a job that is       *)
(* PENDING or PROCESSING is in place, and no step removes it while the job *)
(* is in one of these states; once process_job has returned for a          *)
(* COMPLETED job the file is gone                                          *)
C13_StagedFileLifetime ==
    [][\A j \in Jobs :
          /\ (status[j] \in {PENDING, PROCESSING} /\ staged[j] = "present")
                 => staged'[j] = "present"
          /\ (status'[j] \in {PENDING, PROCESSING} /\ subPc'[j] \in {"saved", "counted", "done"})
                 => staged'[j] = "present"
          /\ (status'[j] = COMPLETED /\ \E w \in Workers : pc'[w] = "ack" /\ cur'[w] = j)
                 => staged'[j] = "deleted"]_vars

(* ------------- properties of a single followed process_job call -------- *)
IsProgress(e) == e.event_type = "progress_update"
ProgressEvents == SelectSeq(events, IsProgress)

RECURSIVE Flatten(_)
Flatten(chunks) == IF chunks = <<>> THEN <<>> ELSE Head(chunks) \o Flatten(Tail(chunks))

CeilDiv(n, d) == (n + d - 1) \div d

(* read_file is exhausted: the for loop of step 3 was left normally *)
LoopLeft == at \in {"complete", "delete_file", "returned"}

(* C12: when process_job has ended in its exception handler the job is     *)
(* FAILED, the last job_logs line is an ERROR line, the last event is the  *)
(* status_update of the failure, and the staged file has been deleted;     *)
(* after a header mismatch the job has written no row to the target table  *)
C12_JobErrorCleansUp ==
    at = "failed" =>
        /\ job.status = FAILED
        /\ job_logs # <<>> /\ job_logs[Len(job_logs)] = "error"
        /\ events # <<>> /\ events[Len(events)].event_type = "status_update"
        /\ events[Len(events)].status = FAILED
        /\ ~file_exists
        /\ ~has_columns => RowsOf(RunJob) = {}

(* C14: with a complete header, whatever the rows hold, the job does not   *)
(* fail: every rejected row is counted in error_rows and has its job_logs  *)
(* line, and the call ends COMPLETED with every row counted                *)
C14_RowErrorsNeverFail ==
    has_columns =>
        /\ at \notin {"except", "failed"}
        /\ job.status # FAILED
        /\ at = "returned" =>
              /\ job.status = COMPLETED
              /\ job.error_rows = Len(job_logs)
              /\ job.processed_rows + job.error_rows = Len(sheet)

(* C19: every chunk read_file yields has between 1 and chunk_size rows;    *)
(* the chunks, in order, are the rows of the file in order; and when       *)
(* read_file is exhausted it has yielded count_rows rows in                *)
(* ceil(n / chunk_size) chunks                                             *)
C19_ChunksCoverFile ==
    /\ \A i \in 1..Len(yielded) : Len(yielded[i]) >= 1 /\ Len(yielded[i]) <= chunk_size
    /\ Flatten(yielded) = SubSeq(sheet, 1, Len(Flatten(yielded)))
    /\ LoopLeft =>
          /\ Len(Flatten(yielded)) = count_rows(sheet)
          /\ Len(yielded) = CeilDiv(count_rows(sheet), chunk_size)

(* C19 witness: a file of chunk_size + 1 rows, chunk_size being 2, was     *)
(* read to its end in two chunks                                           *)
C19_Witness ==
    /\ LoopLeft /\ chunk_size = 2 /\ Len(sheet) = chunk_size + 1
    /\ Len(yielded) = 2 /\ Len(yielded[1]) = 2 /\ Len(yielded[2]) = 1

(* C20: two progress_update events of the job are at least one second      *)
(* apart unless the later one reports the final chunk, and once the loop   *)
(* over a file with rows is left a progress_update reporting every row of  *)
(* the file has been published                                             *)
C20_ThrottleKeepsFinalProgress ==
    /\ \A i \in 1..Len(ProgressEvents) : \A k \in 1..Len(ProgressEvents) :
          i < k =>
              \/ ProgressEvents[k].time - ProgressEvents[i].time >= 1
              \/ ProgressEvents[k].processed_rows + ProgressEvents[k].error_rows = Len(sheet)
    /\ (LoopLeft /\ Len(sheet) > 0) =>
          \E i \in 1..Len(ProgressEvents) :
              ProgressEvents[i].processed_rows + ProgressEvents[i].error_rows = Len(sheet)

(* ------------------- further properties of the pipeline ---------------- *)
(* the normalized placas of the rows of file f that validate_vehicle       *)
(* accepts                                                                 *)
ValidPlacas(f) ==
    { NormalizePlaca(f[i].placa) : i \in { k \in 1..Len(f) : validate_vehicle(f[k]) = "valid" } }

(* the placas job j has stored in imported_vehicles *)
PlacasOf(j) == { vehicles[i].placa : i \in RowsOf(j) }

(* C15: when create_bulk meets a unique-constraint violation the worker    *)
(* goes on with the chunk instead of failing the job: every placa of the   *)
(* chunk is stored afterwards and every row of vehicles_to_insert is       *)
(* counted, as processed or as error                                       *)
C15_BulkInsertFallsBack ==
    [][\A w \in Workers :
          (pc[w] = "insert" /\ buf[w] # <<>> /\ UniqueViolation(buf[w])
             /\ pc'[w] \notin {"insert", "idle"}) =>
          /\ pc'[w] = "progress"
          /\ StoredPlacas' = StoredPlacas \cup SeqToSet(buf[w])
          /\ total_processed'[w] + total_errors'[w]
                = total_processed[w] + total_errors[w] + Len(buf[w])]_vars

(* C16: a COMPLETED job has counted every row of its file exactly once:    *)
(* processed_rows + error_rows = total_rows                                *)
C16_CompletedCountsEveryRow ==
    \A j \in Jobs : status[j] = COMPLETED =>
        /\ total_rows[j] = Len(content[j])
        /\ processed_rows[j] + error_rows[j] = total_rows[j]

(* C17: a COMPLETED job whose file has N >= 1 valid rows, all with the     *)
(* same placa, which no other job has stored, has processed_rows = 1 and   *)
(* error_rows = N - 1                                                      *)
C17_SameKeyFile ==
    \A j \in Jobs :
        ( /\ status[j] = COMPLETED
          /\ Len(content[j]) >= 1
          /\ \A i \in 1..Len(content[j]) : validate_vehicle(content[j][i]) = "valid"
          /\ Cardinality(ValidPlacas(content[j])) = 1
          /\ \A k \in Jobs \ {j} : ValidPlacas(content[j]) \cap PlacasOf(k) = {} )
        => /\ processed_rows[j] = 1
           /\ error_rows[j] = Len(content[j]) - 1

(* C18: the same file uploaded twice gives two jobs; when both are         *)
(* COMPLETED and the first has stored every valid placa of the file, the   *)
(* second has stored no row and reports processed_rows = 0 and             *)
(* error_rows = total_rows                                                 *)
C18_SameFileTwice ==
    \A j, k \in Jobs :
        ( /\ j < k
          /\ content[j] = content[k]
          /\ status[j] = COMPLETED /\ status[k] = COMPLETED
          /\ PlacasOf(j) = ValidPlacas(content[j]) )
        => /\ RowsOf(k) = {}
           /\ processed_rows[k] = 0
           /\ error_rows[k] = total_rows[k]

(* ================= properties of the Event Bus and stream ============== *)
(* a message that carries the job's counters: the initial state and the    *)
(* job_progress messages                                                   *)
CarriesProgress(m) == m.initial \/ m.event = "job_progress"

(* C21: the processed_rows values of the messages one connection is sent   *)
(* never decrease in the order they are sent, the initial state and the    *)
(* events of a redelivered message included                                *)
C21_ProgressNeverRegresses ==
    \A c \in Conns : \A i, k \in 1..Len(sent[c]) :
        (i < k /\ CarriesProgress(sent[c][i]) /\ CarriesProgress(sent[c][k]))
            => sent[c][i].data.processed_rows <= sent[c][k].data.processed_rows

(* connection c has a queue in the list of key *)
Subscribed(c, key) ==
    /\ key \in DOMAIN subscribers
    /\ \E i \in 1..Len(subscribers[key]) : subscribers[key][i] = c

(* C22: a publish call for job_id puts its event to the queue of every     *)
(* subscription on the key job_id and on "__all__", and to no other queue  *)
C22_PublishReachesItsKeys ==
    [][(pub # <<>> /\ pub' = <<>>) =>
          \A c \in Conns :
              queues'[c] = IF Subscribed(c, pub[1].event.job_id) \/ Subscribed(c, ALL)
                           THEN Append(queues[c], pub[1].event)
                           ELSE queues[c]]_vars

(* an event was published while one connection was subscribed to its job   *)
(* and another to a different job: only the first has it                   *)
C22_Witness ==
    \E c, d \in Conns :
        /\ Subscribed(c, RunJobId) /\ queues[c] # <<>>
        /\ Subscribed(d, OtherJobId) /\ queues[d] = <<>>
        /\ published # {} /\ pub = <<>>

(* C23: publish does not hold the lock of the subscriber map while it      *)
(* delivers, and a subscriber that does not read does not keep an event    *)
(* from the others                                                         *)
C23_DeliversOutsideLock == pub # <<>> => ~lock

NotInitial(m) == ~m.initial

(* the messages of the events published so far, in the order of the        *)
(* _publish_event_async calls                                              *)
Published == [i \in 1..Len(events) |-> message(Event(RunJobId, events[i]))]

(* the event messages connection c has been sent, followed by those of the *)
(* events waiting in its queue                                             *)
Received(c) ==
    SelectSeq(sent[c], NotInitial) \o [i \in 1..Len(queues[c]) |-> message(queues[c][i])]

(* a occurs in b as a run of consecutive elements *)
IsSegment(a, b) ==
    \E k \in 0..(Len(b) - Len(a)) : \A i \in 1..Len(a) : a[i] = b[k + i]

(* C24: every connection receives the events of the job in the order       *)
(* process_job published them, also when each publish call is a task of    *)
(* the running loop                                                        *)
C24_EventsInPublishOrder == \A c \in Conns : IsSegment(Received(c), Published)

(* publish calls were tasks of the running loop, process_job went on       *)
(* without waiting for them, and a connection has been sent three events   *)
C24_Witness ==
    /\ loop_running
    /\ at = "returned"
    /\ \E c \in Conns : Len(SelectSeq(sent[c], NotInitial)) >= 3

(* the connections whose event_generator is running *)
Attached == { c \in Conns : gen[c] \in {"initial", "stream"} }

(* the queues JobEventManager holds, over all keys *)
Registered == { c \in Conns : \E key \in DOMAIN subscribers : Subscribed(c, key) }

(* C25: a connection that was closed has no queue in the registry: the     *)
(* registered queues are those of the attached connections                 *)
C25_ClosedIsUnregistered == Registered = Attached

(* C26: a connection opened with the job_id of an existing job is sent the *)
(* job_status message of the initial state first and connected, once,      *)
(* right after it; every event published after the state was read follows  *)
C26_InitialThenConnected ==
    \A c \in Conns :
        (param[c] = RunJobId /\ gen[c] = "stream") =>
            /\ sent[c] # <<>> /\ sent[c][1].initial
            /\ Len(sent[c]) >= 2 =>
                  /\ sent[c][2].event = "connected"
                  /\ \A i \in 3..Len(sent[c]) : sent[c][i].event # "connected"
            /\ IsSegment(Received(c), Published)

(* the followed file has two valid rows that are read as one chunk *)
TwoRowFile == Len(sheet) = 2 /\ chunk_size >= 2 /\ \A i \in 1..2 : validate_vehicle(sheet[i]) = "valid"

(* connection c was subscribed before process_job started, the call has    *)
(* returned and everything it published has been sent to c                 *)
SawWholeRun(c) ==
    /\ gen[c] = "stream"
    /\ at = "returned" /\ deliveries = 1
    /\ pending = {} /\ pub = <<>> /\ queues[c] = <<>>
    /\ Len(SelectSeq(sent[c], NotInitial)) >= Len(events)

(* C27: a connection attached before a two-row valid file is processed is  *)
(* sent exactly connected, status_update(PROCESSING), progress_update(2,0),*)
(* status_update(COMPLETED); and on every connection a progress_update     *)
(* comes after a status_update(PROCESSING) and none comes after            *)
(* status_update(COMPLETED)                                                *)
C27_ScenarioA ==
    \A c \in Conns :
        LET r == SelectSeq(sent[c], NotInitial)
        IN  /\ (TwoRowFile /\ SawWholeRun(c)) =>
                  /\ Len(r) = 4
                  /\ r[1].event = "connected"
                  /\ r[2].event = "job_status" /\ r[2].data.status = PROCESSING
                  /\ r[3].event = "job_progress"
                  /\ r[3].data.processed_rows = 2 /\ r[3].data.error_rows = 0
                  /\ r[4].event = "job_status" /\ r[4].data.status = COMPLETED
            /\ \A i, k \in 1..Len(r) :
                  (i < k /\ r[i].event = "job_status" /\ r[i].data.status = COMPLETED)
                      => r[k].event # "job_progress"

(* ======================= properties of the queue ======================= *)
(* C28: with the worker and the queue kept running, the job of every       *)
(* published message ends COMPLETED or FAILED and its message is deleted   *)
C28_EveryMessageIsDeleted ==
    \A j \in Jobs : (msg[j] = "visible") ~> (status[j] \in Terminal /\ msg[j] = "deleted")

(* ====================== properties of SSEClient ======================== *)
(* C29: the delays scheduled since the last open are min(reconnectDelay *  *)
(* backoffMultiplier^k, maxReconnectDelay) for k = 0, 1, 2, ..., and       *)
(* reconnectAttempts counts the reconnections made since the last open:    *)
(* it is 0 while the stream is open                                        *)
C29_ExponentialBackoff ==
    hook = "mounted" =>
        /\ \A k \in 1..Len(scheduled) :
              LET d == options.reconnectDelay * Pow(options.backoffMultiplier, k - 1)
              IN  scheduled[k] = IF d > options.maxReconnectDelay
                                 THEN options.maxReconnectDelay ELSE d
        /\ reconnectAttempts = Len(scheduled) - timeouts
        /\ readyState = "OPEN" => reconnectAttempts = 0

(* a client with the default options has opened its stream, lost it and    *)
(* scheduled six reconnections, the last one at the cap of 30 s            *)
C29_Witness ==
    /\ options = DefaultOptions
    /\ hook = "mounted"
    /\ opens >= 1
    /\ Len(scheduled) = 6
    /\ scheduled[1] = 1000 /\ scheduled[3] = 4000 /\ scheduled[6] = 30000

(* C30: at most maxReconnectAttempts reconnections are scheduled without   *)
(* an open in between; when the stream is given up with none scheduled,    *)
(* the limit is reached and max_reconnect_attempts was emitted last        *)
C30_AttemptsAreLimited ==
    hook = "mounted" =>
        /\ Len(scheduled) <= options.maxReconnectAttempts
        /\ reconnectAttempts <= options.maxReconnectAttempts
        /\ (readyState = "CLOSED" /\ timeouts = 0) =>
              /\ reconnectAttempts = options.maxReconnectAttempts
              /\ emitted[Len(emitted)] = "max_reconnect_attempts"

(* a client limited to two attempts has made both after an open and has    *)
(* emitted max_reconnect_attempts                                          *)
C30_Witness ==
    /\ options.maxReconnectAttempts = 2
    /\ hook = "mounted"
    /\ opens >= 1
    /\ Len(scheduled) = 2
    /\ readyState = "CLOSED" /\ timeouts = 0
    /\ emitted[Len(emitted)] = "max_reconnect_attempts"

(***************************************************************************)
(* UploadForm: files are selected, Enviar runs handleUpload                *)
(***************************************************************************)

(* a selected file: its name, and whether the list item carries the File   *)
(* object (originFileObj)                                                  *)
UploadFiles == [name : {"a.csv", "b.csv"}, origin : BOOLEAN]

UploadInit ==
    /\ NoPipeline
    /\ NoRun
    /\ NoBus
    /\ NoClient
    /\ NoUi

(* Dragger onChange: a file that passed beforeUpload joins the list *)
onChange_add(f) ==
    /\ Len(fileList) < MaxFiles
    /\ fileList' = Append(fileList, f)
    /\ UNCHANGED <<uploading, uploadResults, up, posted, created, serverVars, clientVars,
                   apiVars, detailVars, listVars, dynVars>>

(* Dragger onChange: the k-th file is removed from the list *)
onChange_remove(k) ==
    /\ k \in 1..Len(fileList)
    /\ fileList' = [j \in 1..(Len(fileList) - 1) |-> IF j < k THEN fileList[j] ELSE fileList[j + 1]]
    /\ UNCHANGED <<uploading, uploadResults, up, posted, created, serverVars, clientVars,
                   apiVars, detailVars, listVars, dynVars>>

(* handleUpload up to its loop; the button is disabled for an empty list   *)
(* and does not take clicks while uploading                                *)
handleUpload ==
    /\ ~uploading
    /\ fileList # <<>>
    /\ created + Len(fileList) <= MaxCreated
    /\ uploading' = TRUE
    /\ uploadResults' = <<>>
    /\ up' = [fileList |-> fileList, i |-> 0, results |-> <<>>, awaiting |-> FALSE]
    /\ posted' = <<>>
    /\ UNCHANGED <<fileList, created, serverVars, clientVars, apiVars, detailVars, listVars, dynVars>>

(* the loop of handleUpload left at the first file that ends in an error *)
next_index_StopsOnError(i, failed) == IF failed THEN Len(up.fileList) ELSE i + 1

(* the index the loop of handleUpload takes after the file at index i,     *)
(* failed telling whether that file ended in an error entry                *)
next_index(i, failed) == i + 1

(* results.push for an error *)
error_entry(item) == [filename |-> item.name, jobId |-> NULL, status |-> "error"]

(* one turn of the loop up to the await: an item without originFileObj     *)
(* gets an error entry, any other is given to createJob.mutateAsync        *)
upload_file ==
    /\ uploading
    /\ ~up.awaiting
    /\ up.i < Len(up.fileList)
    /\ LET item == up.fileList[up.i + 1]
       IN  IF ~item.origin
           THEN /\ up' = [up EXCEPT !.results = Append(@, error_entry(item)),
                                    !.i = next_index(up.i, TRUE)]
                /\ UNCHANGED posted
           ELSE /\ up' = [up EXCEPT !.awaiting = TRUE]
                /\ posted' = Append(posted, item.name)
    /\ UNCHANGED <<fileList, uploading, uploadResults, created, serverVars, clientVars,
                   apiVars, detailVars, listVars, dynVars>>

(* POST /imports answers 201 with the id of the job it created (ok) or     *)
(* with an error: the rest of that turn of the loop                        *)
upload_response(ok) ==
    /\ uploading
    /\ up.awaiting
    /\ LET item == up.fileList[up.i + 1]
       IN  IF ok
           THEN /\ created' = created + 1
                /\ up' = [up EXCEPT !.results = Append(@, [filename |-> item.name,
                                                           jobId |-> created + 1,
                                                           status |-> "success"]),
                                    !.i = next_index(up.i, FALSE),
                                    !.awaiting = FALSE]
           ELSE /\ UNCHANGED created
                /\ up' = [up EXCEPT !.results = Append(@, error_entry(item)),
                                    !.i = next_index(up.i, TRUE),
                                    !.awaiting = FALSE]
    /\ UNCHANGED <<fileList, uploading, uploadResults, posted, serverVars, clientVars,
                   apiVars, detailVars, listVars, dynVars>>

(* handleUpload after its loop *)
upload_finish ==
    /\ uploading
    /\ ~up.awaiting
    /\ up.i >= Len(up.fileList)
    /\ uploadResults' = up.results
    /\ uploading' = FALSE
    /\ fileList' = <<>>
    /\ UNCHANGED <<up, posted, created, serverVars, clientVars, apiVars, detailVars, listVars, dynVars>>

UploadNext ==
    \/ \E f \in UploadFiles : onChange_add(f)
    \/ \E k \in 1..MaxFiles : onChange_remove(k)
    \/ handleUpload
    \/ upload_file
    \/ \E ok \in BOOLEAN : upload_response(ok)
    \/ upload_finish

UploadSpec == UploadInit /\ [][UploadNext]_vars

(***************************************************************************)
(* useJobSSE: the initial GET /imports/{id} and the SSE stream of one job  *)
(* that the worker processes meanwhile                                     *)
(***************************************************************************)

DetailInit ==
    /\ NoPipeline
    /\ NoRun
    /\ NoBus
    /\ NoClient
    /\ NoUi

(* an SSE message: its event name, whether its data is the whole job (id   *)
(* and filename), and the fields the handlers read                         *)
SseMessage(name, whole, r) ==
    [event |-> name, whole |-> whole, status |-> r.status, processed_rows |-> r.processed_rows]

(* the stream sends m when it is open: publish reaches the subscribers of  *)
(* the moment only                                                         *)
Sent(m) == IF stream = "open" THEN Append(inbox, m) ELSE inbox

(* the worker moves the job on: PROCESSING, then progress chunk by chunk,  *)
(* then COMPLETED or FAILED; each step publishes its event, whose data may *)
(* or may not carry the whole job                                          *)
worker_moves(whole) ==
    /\ job_row.status \in {PENDING, PROCESSING}
    /\ \/ /\ job_row.status = PENDING
          /\ job_row' = [job_row EXCEPT !.status = PROCESSING]
          /\ inbox' = Sent(SseMessage("job_status", whole, job_row'))
       \/ /\ job_row.status = PROCESSING
          /\ job_row.processed_rows < DetailRows
          /\ job_row' = [job_row EXCEPT !.processed_rows = @ + 1]
          /\ inbox' = Sent(SseMessage("job_progress", FALSE, job_row'))
       \/ /\ job_row.status = PROCESSING
          /\ \E end \in {COMPLETED, FAILED} : job_row' = [job_row EXCEPT !.status = end]
          /\ inbox' = Sent(SseMessage("job_status", whole, job_row'))
    /\ UNCHANGED <<fetch, stream, detail, last_status, decreased, serverVars, clientVars,
                   apiVars, formVars, listVars, dynVars>>

(* the server handles GET /imports/{id}: the body is the row as it is now *)
fetch_handled ==
    /\ fetch.at = "sent"
    /\ fetch' = [at |-> "answered", body |-> job_row]
    /\ UNCHANGED <<job_row, stream, inbox, detail, last_status, decreased, serverVars,
                   clientVars, apiVars, formVars, listVars, dynVars>>

(* setJob(next): the state it leaves, with whether processed_rows went down *)
setJob(next) ==
    /\ detail' = next
    /\ decreased' = (decreased \/ (detail # null_job /\ next # null_job
                                    /\ next.processed_rows < detail.processed_rows))

(* fetchInitialJob after its await: setJob(response.data) *)
fetch_response ==
    /\ fetch.at = "answered"
    /\ setJob(fetch.body)
    /\ fetch' = [fetch EXCEPT !.at = "done"]
    /\ UNCHANGED <<job_row, stream, inbox, last_status, serverVars, clientVars, apiVars,
                   formVars, listVars, dynVars>>

(* event_generator subscribes and yields the state of the job as a         *)
(* job_status message with the whole job                                   *)
stream_opens ==
    /\ stream = "connecting"
    /\ stream' = "open"
    /\ inbox' = Append(inbox, SseMessage("job_status", TRUE, job_row))
    /\ UNCHANGED <<job_row, fetch, detail, last_status, decreased, serverVars, clientVars,
                   apiVars, formVars, listVars, dynVars>>

(* the updater of the job_status handler *)
on_job_status(prev, data) ==
    IF prev = null_job
    THEN IF data.whole
         THEN [status |-> data.status, processed_rows |-> data.processed_rows]
         ELSE prev
    ELSE [prev EXCEPT !.status = data.status]

(* the updater of the job_progress handler *)
on_job_progress(prev, data) ==
    IF prev = null_job
    THEN prev
    ELSE [prev EXCEPT !.processed_rows = data.processed_rows]

(* the SSEClient hands the next message of the stream to its handler *)
stream_delivers ==
    /\ inbox # <<>>
    /\ LET data == Head(inbox)
       IN  IF data.event = "job_status"
           THEN /\ setJob(on_job_status(detail, data))
                /\ last_status' = data.status
           ELSE /\ setJob(on_job_progress(detail, data))
                /\ UNCHANGED last_status
    /\ inbox' = Tail(inbox)
    /\ UNCHANGED <<job_row, fetch, stream, serverVars, clientVars, apiVars, formVars, listVars, dynVars>>

DetailNext ==
    \/ \E whole \in BOOLEAN : worker_moves(whole)
    \/ fetch_handled
    \/ fetch_response
    \/ stream_opens
    \/ stream_delivers

DetailSpec == DetailInit /\ [][DetailNext]_vars

(***************************************************************************)
(* useJobsSSE: the initial GET /imports with the status filter and the SSE *)
(* stream of all jobs                                                      *)
(***************************************************************************)

(* the values of the status Select of the jobs page *)
Filters == {PENDING, PROCESSING, COMPLETED}

ListInit ==
    /\ NoPipeline
    /\ NoRun
    /\ NoBus
    /\ NoClient
    /\ NoApi
    /\ NoForm
    /\ NoDetail
    /\ NoDyn
    /\ jobs_filter \in Filters
    /\ NewList

(* the list item of job j *)
ListItem(j) == [id |-> j, status |-> all_rows[j].status,
                processed_rows |-> all_rows[j].processed_rows]

(* the body of GET /imports?status=F: the jobs with that status, newest    *)
(* first; n is the newest id looked at                                     *)
RECURSIVE jobs_with_status(_, _)
jobs_with_status(F, n) ==
    IF n = 0 THEN <<>>
    ELSE (IF all_rows[n].status = F THEN <<ListItem(n)>> ELSE <<>>)
         \o jobs_with_status(F, n - 1)

(* an SSE message of the stream of all jobs about job j *)
ListMessage(name, j, r) ==
    [event |-> name, job_id |-> j, status |-> r.status, processed_rows |-> r.processed_rows]

(* the stream sends m when it is open *)
ListSent(m) == IF list_stream = "open" THEN Append(list_inbox, m) ELSE list_inbox

(* job j is uploaded (pending), or the worker moves it on: PROCESSING,     *)
(* progress, then COMPLETED or FAILED, publishing each step                *)
job_moves(j) ==
    /\ \/ /\ all_rows[j].status = NOJOB
          /\ \A k \in ListJobs : k < j => all_rows[k].status # NOJOB
          /\ all_rows' = [all_rows EXCEPT ![j].status = PENDING]
          /\ UNCHANGED list_inbox
       \/ /\ all_rows[j].status = PENDING
          /\ all_rows' = [all_rows EXCEPT ![j].status = PROCESSING]
          /\ list_inbox' = ListSent(ListMessage("job_status", j, all_rows'[j]))
       \/ /\ all_rows[j].status = PROCESSING
          /\ all_rows[j].processed_rows < MaxListRows
          /\ all_rows' = [all_rows EXCEPT ![j].processed_rows = @ + 1]
          /\ list_inbox' = ListSent(ListMessage("job_progress", j, all_rows'[j]))
       \/ /\ all_rows[j].status = PROCESSING
          /\ \E end \in {COMPLETED, FAILED} : all_rows' = [all_rows EXCEPT ![j].status = end]
          /\ list_inbox' = ListSent(ListMessage("job_status", j, all_rows'[j]))
    /\ UNCHANGED <<jobs_filter, list_fetch, list_stream, jobs, serverVars, clientVars,
                   apiVars, formVars, detailVars, dynVars>>

(* the server handles GET /imports with params.status *)
list_fetch_handled ==
    /\ list_fetch.at = "sent"
    /\ list_fetch' = [at |-> "answered", body |-> jobs_with_status(jobs_filter, MaxListJobs)]
    /\ UNCHANGED <<jobs_filter, all_rows, list_stream, list_inbox, jobs, serverVars,
                   clientVars, apiVars, formVars, detailVars, dynVars>>

(* fetchInitialJobs after its await: setJobs(response.data) *)
list_fetch_response ==
    /\ list_fetch.at = "answered"
    /\ jobs' = list_fetch.body
    /\ list_fetch' = [list_fetch EXCEPT !.at = "done"]
    /\ UNCHANGED <<jobs_filter, all_rows, list_stream, list_inbox, serverVars, clientVars,
                   apiVars, formVars, detailVars, dynVars>>

(* event_generator subscribes to all jobs; without job_id it yields no     *)
(* initial state                                                           *)
list_stream_opens ==
    /\ list_stream = "connecting"
    /\ list_stream' = "open"
    /\ UNCHANGED <<jobs_filter, all_rows, list_fetch, list_inbox, jobs, serverVars,
                   clientVars, apiVars, formVars, detailVars, dynVars>>

(* prev.findIndex((j) => j.id === jobId), 0 for -1 *)
findIndex(prev, jobId) ==
    IF \E k \in 1..Len(prev) : prev[k].id = jobId
    THEN CHOOSE k \in 1..Len(prev) : prev[k].id = jobId /\ \A i \in 1..(k - 1) : prev[i].id # jobId
    ELSE 0

(* the job_status handler given a job the list does not hold: the job is   *)
(* put in front when its status matches the filter                        *)
add_new_job(prev, data) ==
    IF jobs_filter = "" \/ data.status = jobs_filter
    THEN <<[id |-> data.job_id, status |-> data.status,
            processed_rows |-> data.processed_rows]>> \o prev
    ELSE prev

(* the updater of the job_status handler *)
list_on_job_status(prev, data) ==
    LET index == findIndex(prev, data.job_id)
    IN  IF index = 0
        THEN add_new_job(prev, data)
        ELSE [prev EXCEPT ![index] = [@ EXCEPT !.status = data.status,
                                               !.processed_rows = data.processed_rows]]

(* the updater of the job_progress handler *)
list_on_job_progress(prev, data) ==
    LET index == findIndex(prev, data.job_id)
    IN  IF index = 0
        THEN prev
        ELSE [prev EXCEPT ![index] = [@ EXCEPT !.processed_rows = data.processed_rows]]

(* the SSEClient hands the next message of the stream to its handler *)
list_stream_delivers ==
    /\ list_inbox # <<>>
    /\ LET data == Head(list_inbox)
       IN  jobs' = IF data.event = "job_status"
                   THEN list_on_job_status(jobs, data)
                   ELSE list_on_job_progress(jobs, data)
    /\ list_inbox' = Tail(list_inbox)
    /\ UNCHANGED <<jobs_filter, all_rows, list_fetch, list_stream, serverVars, clientVars,
                   apiVars, formVars, detailVars, dynVars>>

ListNext ==
    \/ \E j \in ListJobs : job_moves(j)
    \/ list_fetch_handled
    \/ list_fetch_response
    \/ list_stream_opens
    \/ list_stream_delivers

ListSpec == ListInit /\ [][ListNext]_vars

(***************************************************************************)
(* DynamicUploadForm: a file is selected and analysed, its columns are     *)
(* mapped in ColumnMapping, the import is started                          *)
(***************************************************************************)

DynFiles == 1..MaxDynFiles

(* preview.columns of a file: the names of its columns *)
SheetColumns(f) == IF f = 1 THEN {"a", "b"} ELSE {"b", "c"}

(* column.suggested_type: a type the analysis of the values can give *)
suggested_type(col) == IF col = "a" THEN "string" ELSE "int"

(* the values of the type Select that are followed *)
Types == {"string", "int", "fk"}

(* what ForeignKeyConfig hands to its onChange *)
FkEdits == [table : {"t"}, lookup_column : {"id"}, on_missing : {"create", "ignore", "error"}]

(* text typed as table name or display name: empty, blank, or a name *)
Texts == { <<>>, <<" ">>, <<"t">> }

DynInit ==
    /\ NoPipeline
    /\ NoRun
    /\ NoBus
    /\ NoClient
    /\ NoApi
    /\ NoForm
    /\ NoDetail
    /\ NoList
    /\ NoDyn

(* the import has not been started: after createJob the page is left for   *)
(* the page of the job                                                     *)
Editing == submitted = <<>>

(* handleFileSelect up to its await; the Dragger is the content of the     *)
(* upload step and, by the index the content is taken with, of the         *)
(* complete step                                                           *)
handleFileSelect(f) ==
    /\ Editing
    /\ currentStep \in {"upload", "complete"}
    /\ f \notin analysing
    /\ file' = f
    /\ currentStep' = "preview"
    /\ analysing' = analysing \cup {f}
    /\ UNCHANGED <<preview, mappingConfig, submitted, serverVars, clientVars, apiVars,
                   formVars, detailVars, listVars>>

(* handleFileSelect after its await: setPreview(previewData), or the catch *)
preview_settles(f, ok) ==
    /\ Editing
    /\ f \in analysing
    /\ analysing' = analysing \ {f}
    /\ IF ok
       THEN preview' = f /\ UNCHANGED currentStep
       ELSE currentStep' = "upload" /\ UNCHANGED preview
    /\ UNCHANGED <<file, mappingConfig, submitted, serverVars, clientVars, apiVars,
                   formVars, detailVars, listVars>>

(* the Voltar buttons of the preview, mapping and complete steps *)
Voltar ==
    /\ Editing
    /\ \/ currentStep = "preview" /\ preview # 0 /\ currentStep' = "upload"
       \/ currentStep = "mapping" /\ mappingConfig # <<>> /\ currentStep' = "preview"
       \/ currentStep = "complete" /\ currentStep' = "mapping"
    /\ UNCHANGED <<file, preview, mappingConfig, analysing, submitted, serverVars,
                   clientVars, apiVars, formVars, detailVars, listVars>>

(* the config Continuar para Mapeamento sets when there is none *)
empty_config ==
    [target_table |-> <<>>, create_table |-> FALSE, columns |-> <<>>,
     entity_display_name |-> <<>>]

(* Continuar para Mapeamento *)
continue_to_mapping ==
    /\ Editing
    /\ currentStep = "preview"
    /\ preview # 0
    /\ mappingConfig' = IF mappingConfig = <<>> THEN <<empty_config>> ELSE mappingConfig
    /\ currentStep' = "mapping"
    /\ UNCHANGED <<file, preview, analysing, submitted, serverVars, clientVars, apiVars,
                   formVars, detailVars, listVars>>

(* ColumnMapping is on the page with a config to edit *)
Mapping == Editing /\ currentStep = "mapping" /\ preview # 0 /\ mappingConfig # <<>>

(* setMappingConfig({...mappingConfig, field: value}) of the table name,   *)
(* create table and display name inputs                                    *)
config_field_changes(field, value) ==
    /\ Mapping
    /\ mappingConfig' = <<[mappingConfig[1] EXCEPT ![field] = value]>>
    /\ UNCHANGED <<currentStep, file, preview, analysing, submitted, serverVars,
                   clientVars, apiVars, formVars, detailVars, listVars>>

(* the onChange DynamicUploadForm gives to ColumnMapping *)
onChange(mappings) ==
    /\ mappingConfig' = <<[mappingConfig[1] EXCEPT !.columns = mappings]>>
    /\ UNCHANGED <<currentStep, file, preview, analysing, submitted, serverVars,
                   clientVars, apiVars, formVars, detailVars, listVars>>

(* the list ColumnMapping is given *)
mappings == IF mappingConfig = <<>> THEN <<>> ELSE mappingConfig[1].columns

(* the columns of the preview no mapping names *)
unmappedColumns ==
    {col \in SheetColumns(preview) : ~\E k \in 1..Len(mappings) : mappings[k].sheet_column = col}

(* handleAddMapping *)
handleAddMapping(col) ==
    /\ Mapping
    /\ col \in unmappedColumns
    /\ Len(mappings) < MaxMappings
    /\ onChange(Append(mappings, [sheet_column |-> col, type |-> suggested_type(col),
                                  fk |-> <<>>]))

(* handleRemoveMapping *)
handleRemoveMapping(index) ==
    /\ Mapping
    /\ index \in 1..Len(mappings)
    /\ onChange([k \in 1..(Len(mappings) - 1) |->
                    IF k < index THEN mappings[k] ELSE mappings[k + 1]])

(* a mapping whose type is changed keeping the fk it has *)
with_field_KeepsFk(m, field, value) ==
    IF field = "type" THEN [m EXCEPT !.type = value] ELSE [m EXCEPT !.fk = <<value>>]

(* newMappings[index] of handleMappingChange: the field is set, and a      *)
(* change of type sets a blank fk for 'fk' and deletes fk otherwise        *)
with_field(m, field, value) ==
    IF field = "type"
    THEN IF value = "fk"
         THEN [m EXCEPT !.type = value,
                        !.fk = <<[table |-> "", lookup_column |-> "", on_missing |-> "error"]>>]
         ELSE [m EXCEPT !.type = value, !.fk = <<>>]
    ELSE [m EXCEPT !.fk = <<value>>]

(* handleMappingChange from the type Select (any other type) and from the  *)
(* ForeignKeyConfig of a row of type fk                                    *)
handleMappingChange(index, field, value) ==
    /\ Mapping
    /\ index \in 1..Len(mappings)
    /\ IF field = "type"
       THEN value \in Types \ {mappings[index].type}
       ELSE mappings[index].type = "fk" /\ value \in FkEdits
    /\ onChange([mappings EXCEPT ![index] = with_field(@, field, value)])

(* Finalizar Configuração, enabled with a table name and a mapping:        *)
(* handleMappingComplete                                                   *)
handleMappingComplete ==
    /\ Mapping
    /\ mappingConfig[1].target_table # <<>>
    /\ Len(mappingConfig[1].columns) # 0
    /\ currentStep' = "complete"
    /\ UNCHANGED <<file, preview, mappingConfig, analysing, submitted, serverVars,
                   clientVars, apiVars, formVars, detailVars, listVars>>

(* the checks of handleUpload without the one on the display name *)
upload_allowed_NoEntityCheck(f, cfg) ==
    /\ f # 0
    /\ cfg # <<>>
    /\ cfg[1].target_table # <<>> /\ Strip(cfg[1].target_table) # <<>>
    /\ Len(cfg[1].columns) # 0

(* the checks handleUpload makes before it calls createJob *)
upload_allowed(f, cfg) ==
    /\ f # 0
    /\ cfg # <<>>
    /\ cfg[1].target_table # <<>> /\ Strip(cfg[1].target_table) # <<>>
    /\ Len(cfg[1].columns) # 0
    /\ cfg[1].create_table =>
           (cfg[1].entity_display_name # <<>> /\ Strip(cfg[1].entity_display_name) # <<>>)

(* Iniciar Importação: handleUpload *)
start_import ==
    /\ Editing
    /\ currentStep = "complete"
    /\ submitted' = IF upload_allowed(file, mappingConfig)
                    THEN <<[file |-> file, mappingConfig |-> mappingConfig[1]]>>
                    ELSE submitted
    /\ UNCHANGED <<currentStep, file, preview, mappingConfig, analysing, serverVars,
                   clientVars, apiVars, formVars, detailVars, listVars>>

DynNext ==
    \/ \E f \in DynFiles : handleFileSelect(f)
    \/ \E f \in DynFiles, ok \in BOOLEAN : preview_settles(f, ok)
    \/ Voltar
    \/ continue_to_mapping
    \/ \E value \in Texts : config_field_changes("target_table", value)
    \/ \E value \in BOOLEAN : config_field_changes("create_table", value)
    \/ \E value \in Texts : config_field_changes("entity_display_name", value)
    \/ \E col \in {"a", "b", "c"} : handleAddMapping(col)
    \/ \E index \in 1..MaxMappings : handleRemoveMapping(index)
    \/ \E index \in 1..MaxMappings, value \in Types : handleMappingChange(index, "type", value)
    \/ \E index \in 1..MaxMappings, value \in FkEdits : handleMappingChange(index, "fk", value)
    \/ handleMappingComplete
    \/ start_import

DynSpec == DynInit /\ [][DynNext]_vars

(***************************************************************************)
(* SSEClient call by call (ApiSpec)                                        *)
(***************************************************************************)

(* C31: after off(eventType, callback) has returned, no server event of    *)
(* that type invokes the callback, whether on() was called before or after *)
(* connect(). Refuted: the listener on() adds to an existing EventSource   *)
(* calls the callback itself and off() never removes it.                   *)
C31_OffSilencesCallback ==
    \A t \in EventTypes :
        (received = t /\ ons[t] > 0 /\ ~eventHandlers[t]) => invoked = 0

(* C33: at most one EventSource that is not CLOSED exists for the client,  *)
(* connect() doing nothing while connecting or connected.                  *)
C33_OneLiveEventSource ==
    orphans + (IF readyState \in {"CONNECTING", "OPEN"} THEN 1 ELSE 0) <= 1

(* the last connect() of the caller found the client connecting or         *)
(* connected and returned at once, and the stream, lost since, has been    *)
(* opened again                                                            *)
C33_Witness ==
    /\ returned
    /\ isConnected
    /\ readyState = "OPEN"
    /\ Len(emitted) >= 3

(* C34: once disconnect() has returned there is no EventSource until the   *)
(* caller calls connect() again. Refuted: scheduleReconnect overwrites     *)
(* this.reconnectTimer, so disconnect() clears the last timeout only and   *)
(* an earlier one still calls connect().                                   *)
C34_DisconnectedStaysSo ==
    disconnected => readyState = "null"

(* C35: a server event of a type invokes a callback registered once for    *)
(* that type exactly once. Refuted: for 'connected' and 'message' the      *)
(* listener of connect() or on() and emit() both call it.                  *)
C35_InvokedOncePerEvent ==
    \A t \in EventTypes :
        (received = t /\ ons[t] = 1 /\ eventHandlers[t]) => invoked = 1

(***************************************************************************)
(* UploadForm (UploadSpec)                                                 *)
(***************************************************************************)

(* the names of the items of a list that carry their File, in order *)
RECURSIVE NamesWithFile(_)
NamesWithFile(l) ==
    IF l = <<>> THEN <<>>
    ELSE IF Head(l).origin THEN <<Head(l).name>> \o NamesWithFile(Tail(l))
         ELSE NamesWithFile(Tail(l))

(* C32: handleUpload submits the files it was started with one at a time   *)
(* and in list order, each success being a job of its own; a failed file   *)
(* does not stop the later ones, and the result list has one entry for     *)
(* each file, in order, once handleUpload is through.                      *)
C32_OneEntryPerFile ==
    LET l == up.fileList
        r == up.results
        handled == IF up.awaiting THEN up.i + 1 ELSE up.i
    IN  /\ Len(r) = up.i
        /\ up.i <= Len(l)
        /\ \A k \in 1..Len(r) :
               /\ r[k].filename = l[k].name
               /\ r[k].status \in {"success", "error"}
               /\ r[k].status = "success" => (l[k].origin /\ r[k].jobId # NULL)
        /\ \A j, k \in 1..Len(r) :
               (j # k /\ r[j].status = "success" /\ r[k].status = "success")
                   => r[j].jobId # r[k].jobId
        /\ posted = NamesWithFile(SubSeq(l, 1, handled))
        /\ (~uploading /\ l # <<>>) => (uploadResults = r /\ Len(r) = Len(l))

(* handleUpload is through with two files of which the first failed and    *)
(* the second became a job                                                 *)
C32_Witness ==
    /\ ~uploading
    /\ Len(uploadResults) = 2
    /\ uploadResults[1].status = "error"
    /\ uploadResults[2].status = "success"
    /\ Len(posted) = 2

(***************************************************************************)
(* useJobSSE (DetailSpec)                                                  *)
(***************************************************************************)

(* C36: for every interleaving of the response of the initial GET with the *)
(* SSE events, once the job has ended and the response and all events sent *)
(* have been handled, the job shown has the status of the last job_status  *)
(* event handled (a terminal one when one was delivered), and no           *)
(* update has lowered processed_rows. Refuted: the response, an older      *)
(* reading of the row, replaces what the events have set.                  *)
C36_NoOlderStateWins ==
    /\ ~decreased
    /\ (fetch.at = "done" /\ inbox = <<>> /\ job_row.status \in Terminal
            /\ last_status # "none")
           => detail.status = last_status

(***************************************************************************)
(* useJobsSSE (ListSpec)                                                   *)
(***************************************************************************)

(* C37: with the status filter F, once the initial fetch has set the list, *)
(* every job of the list has status F and no job id appears twice, after   *)
(* any job_status and job_progress events. Refuted: a job_status event for *)
(* a job of the list changes its status in place and the job stays.        *)
C37_ListMatchesFilter ==
    list_fetch.at = "done" =>
        /\ \A k \in 1..Len(jobs) : jobs[k].status = jobs_filter
        /\ \A i, k \in 1..Len(jobs) : i # k => jobs[i].id # jobs[k].id

(***************************************************************************)
(* DynamicUploadForm and ColumnMapping (DynSpec)                           *)
(***************************************************************************)

(* C38: createJob is called only with a file and a mapping config whose    *)
(* target_table is not blank after trimming, whose columns are not empty   *)
(* and, when create_table is set, whose entity_display_name is not blank,  *)
(* whatever steps and edits came before.                                   *)
C38_CreateJobNeedsValidConfig ==
    submitted # <<>> =>
        LET cfg == submitted[1].mappingConfig
        IN  /\ submitted[1].file \in DynFiles
            /\ Strip(cfg.target_table) # <<>>
            /\ cfg.columns # <<>>
            /\ cfg.create_table => Strip(cfg.entity_display_name) # <<>>

(* the import was started for a table to create *)
C38_Witness ==
    /\ submitted # <<>>
    /\ submitted[1].mappingConfig.create_table
    /\ Len(submitted[1].mappingConfig.columns) = 2

(* C39: in the mapping and complete steps the preview and the mappings     *)
(* come from the file that is selected. Refuted: handleFileSelect keeps    *)
(* the preview and the mapping config of the file selected before.         *)
C39_PreviewIsOfSelectedFile ==
    currentStep \in {"mapping", "complete"} =>
        /\ preview = file
        /\ \A k \in 1..Len(mappings) : mappings[k].sheet_column \in SheetColumns(file)

(* the mappings after a step *)
mappings_after == IF mappingConfig' = <<>> THEN <<>> ELSE mappingConfig'[1].columns

====
